---- MODULE Spec2Model ----
(***************************************************************************)
(* A model of vm-cli, the command-line client for VictoriaMetrics.  One    *)
(* behaviour is one invocation of the program: the command line is parsed, *)
(* the subcommand's execute runs (each step performs at most one request   *)
(* to the backend and handles its outcome), and main turns the returned    *)
(* Result into output on stderr and the process exit code.                 *)
(*                                                                         *)
(* Text is modelled as a sequence of one-character strings, so that the    *)
(* string operations of the code (rsplit_once, split_once, trim, contains, *)
(* parse::<f64>, ...) are computed character by character.                 *)
(***************************************************************************)
EXTENDS Integers, Sequences, FiniteSets, TLC

VARIABLES
    cli,          \* the parsed command line: subcommand and its arguments
    world,        \* what the invocation finds outside the process
    pc,           \* position of the process
    requests,     \* the requests that reached the transport, with outcome
    files,        \* the files the process wrote: <<path, data>>, in order
    stdout,       \* what was written to standard output, in order
    stderr,       \* what was written to standard error, in order
    ret,          \* the Result the subcommand's execute returned to main
    exit_code,    \* the exit code of the process, -1 while it runs
    locals,       \* the locals of execute that live across its requests
    line_count,   \* validate_prometheus_format: lines examined
    error_count   \* validate_prometheus_format: lines found malformed

vars == <<cli, world, pc, requests, files, stdout, stderr, ret, exit_code,
          locals, line_count, error_count>>

-----------------------------------------------------------------------------
(* Bounds of the model.                                                    *)

\* lines of an import file or of an export response body
MaxLines == 3
\* items of a JSON import document
MaxItems == 2
\* records of a CSV import document after the header record
MaxRecords == 2
\* tokens a query string is composed of
MaxQueryToks == 3

-----------------------------------------------------------------------------
(* Option<T>: None is the empty sequence, Some(x) the sequence <<x>>.      *)

None == <<>>

Some(x) == <<x>>

IsSome(o) == Len(o) = 1

-----------------------------------------------------------------------------
(* str: the operations of the Rust standard library the code calls.        *)

RECURSIVE Concat(_)
\* the concatenation of a sequence of texts
Concat(ss) == IF ss = <<>> THEN <<>> ELSE Head(ss) \o Concat(Tail(ss))

RECURSIVE Join(_, _)
\* [String]::join(sep)
Join(ss, sep) ==
    IF ss = <<>> THEN <<>>
    ELSE IF Len(ss) = 1 THEN Head(ss)
    ELSE Head(ss) \o sep \o Join(Tail(ss), sep)

\* the characters char::is_whitespace holds of, restricted to ASCII
WHITESPACE == {" ", "\t", "\r", "\n"}

IsDigit(c) == c \in {"0", "1", "2", "3", "4", "5", "6", "7", "8", "9"}

IsAsciiLetter(c) ==
    c \in {"a", "b", "c", "d", "e", "f", "g", "h", "i", "j", "k", "l", "m",
           "n", "o", "p", "q", "r", "s", "t", "u", "v", "w", "x", "y", "z",
           "A", "B", "C", "D", "E", "F", "G", "H", "I", "J", "K", "L", "M",
           "N", "O", "P", "Q", "R", "S", "T", "U", "V", "W", "X", "Y", "Z"}

\* char::is_alphanumeric, restricted to ASCII
is_alphanumeric(c) == IsDigit(c) \/ IsAsciiLetter(c)

\* str::contains(char)
contains_char(s, c) == \E i \in 1..Len(s) : s[i] = c

\* str::contains(&str)
contains(s, pat) ==
    \E i \in 1..(Len(s) - Len(pat) + 1) : SubSeq(s, i, i + Len(pat) - 1) = pat

\* str::starts_with(char)
starts_with(s, c) == Len(s) > 0 /\ s[1] = c

\* index of the first occurrence of c in s, 0 when there is none
FirstIndex(s, c) ==
    IF contains_char(s, c)
    THEN CHOOSE i \in 1..Len(s) : s[i] = c /\ \A j \in 1..(i - 1) : s[j] # c
    ELSE 0

\* index of the last occurrence of c in s, 0 when there is none
LastIndex(s, c) ==
    IF contains_char(s, c)
    THEN CHOOSE i \in 1..Len(s) : s[i] = c /\ \A j \in (i + 1)..Len(s) : s[j] # c
    ELSE 0

\* the text before position i, the whole text when i = 0
Before(s, i) == IF i = 0 THEN s ELSE SubSeq(s, 1, i - 1)

\* the text after position i, the empty text when i = 0
After(s, i) == IF i = 0 THEN <<>> ELSE SubSeq(s, i + 1, Len(s))

\* Some((before, after)) around position i, None when i = 0
SplitAt(s, i) == IF i = 0 THEN None ELSE Some(<<Before(s, i), After(s, i)>>)

\* str::split_once(char): Some((before, after)) around the first c
split_once(s, c) == SplitAt(s, FirstIndex(s, c))

\* str::rsplit_once(char): Some((before, after)) around the last c
rsplit_once(s, c) == SplitAt(s, LastIndex(s, c))

RECURSIVE split(_, _)
RECURSIVE SplitFrom(_, _, _)
\* str::split(char): the pieces between the occurrences of c (never empty)
split(s, c) == SplitFrom(s, c, FirstIndex(s, c))

SplitFrom(s, c, i) ==
    IF i = 0 THEN <<s>> ELSE <<Before(s, i)>> \o split(After(s, i), c)

\* str::strip_suffix(char)
strip_suffix(s, c) ==
    IF Len(s) > 0 /\ s[Len(s)] = c THEN Some(SubSeq(s, 1, Len(s) - 1)) ELSE None

RECURSIVE trim_start_matching(_, _)
trim_start_matching(s, cs) ==
    IF Len(s) > 0 /\ s[1] \in cs THEN trim_start_matching(Tail(s), cs) ELSE s

RECURSIVE trim_end_matching(_, _)
trim_end_matching(s, cs) ==
    IF Len(s) > 0 /\ s[Len(s)] \in cs
    THEN trim_end_matching(SubSeq(s, 1, Len(s) - 1), cs)
    ELSE s

\* str::trim_matches(char)
trim_matches(s, c) == trim_end_matching(trim_start_matching(s, {c}), {c})

\* str::trim
trim(s) == trim_end_matching(trim_start_matching(s, WHITESPACE), WHITESPACE)

\* a line without the "\r" that ends it, if any
StripCr(raw) ==
    IF Len(raw) > 0 /\ raw[Len(raw)] = "\r" THEN SubSeq(raw, 1, Len(raw) - 1)
    ELSE raw

RECURSIVE lines(_)
RECURSIVE LinesFrom(_, _)
\* str::lines: the text split at "\n"; a final empty line is not yielded and
\* a trailing "\r" of a line is removed
lines(s) == IF s = <<>> THEN <<>> ELSE LinesFrom(s, FirstIndex(s, "\n"))

LinesFrom(s, i) ==
    <<StripCr(Before(s, i))>> \o (IF i = 0 THEN <<>> ELSE lines(After(s, i)))

-----------------------------------------------------------------------------
(* f64.  A value is a record: k is "fin", "inf" or "nan"; a finite value   *)
(* is (-1)^neg * m / 10^e, kept normalised (m has no trailing zero unless  *)
(* e = 0).  Decimal texts are parsed and printed exactly.                  *)

DigitChars == <<"0", "1", "2", "3", "4", "5", "6", "7", "8", "9">>

DigitValue(c) == (CHOOSE i \in 1..10 : DigitChars[i] = c) - 1

RECURSIVE Pow10(_)
Pow10(n) == IF n = 0 THEN 1 ELSE 10 * Pow10(n - 1)

RECURSIVE DigitsToNat(_)
\* the number a text of digits denotes; the empty text denotes 0
DigitsToNat(s) ==
    IF s = <<>> THEN 0
    ELSE 10 * DigitsToNat(SubSeq(s, 1, Len(s) - 1)) + DigitValue(s[Len(s)])

RECURSIVE NatToDigits(_)
\* the decimal text of a natural number
NatToDigits(n) ==
    IF n < 10 THEN <<DigitChars[n + 1]>>
    ELSE NatToDigits(n \div 10) \o <<DigitChars[(n % 10) + 1]>>

AllDigits(s) == \A i \in 1..Len(s) : IsDigit(s[i])

\* char::to_ascii_lowercase on the letters of "infinity", "nan" and "e"
LowerChar(c) ==
    CASE c = "I" -> "i" [] c = "N" -> "n" [] c = "F" -> "f" [] c = "T" -> "t"
      [] c = "Y" -> "y" [] c = "A" -> "a" [] c = "E" -> "e" [] OTHER -> c

Lower(s) == [i \in 1..Len(s) |-> LowerChar(s[i])]

\* the text without the sign that starts it, if any
StripSign(s) == IF Len(s) > 0 /\ s[1] \in {"+", "-"} THEN Tail(s) ELSE s

IsNegative(s) == Len(s) > 0 /\ s[1] = "-"

RECURSIVE NormF64(_, _, _)
NormF64(neg, m, e) ==
    IF m = 0 THEN [k |-> "fin", neg |-> neg, m |-> 0, e |-> 0]
    ELSE IF e > 0 /\ m % 10 = 0 THEN NormF64(neg, m \div 10, e - 1)
    ELSE [k |-> "fin", neg |-> neg, m |-> m, e |-> e]

\* the f64 of a finite decimal: (-1)^neg * m * 10^(-e), e of either sign
MkF64(neg, m, e) ==
    IF e < 0 THEN NormF64(neg, m * Pow10(0 - e), 0) ELSE NormF64(neg, m, e)

F64Inf(neg) == [k |-> "inf", neg |-> neg, m |-> 0, e |-> 0]

F64NaN == [k |-> "nan", neg |-> FALSE, m |-> 0, e |-> 0]

F64Zero == [k |-> "fin", neg |-> FALSE, m |-> 0, e |-> 0]

\* Number with its parts split: integer digits, fraction digits, exponent
ParseParts(neg, ipart, fpart, has_exp, eneg, edig) ==
    IF /\ AllDigits(ipart) /\ AllDigits(fpart)
       /\ Len(ipart) + Len(fpart) > 0
       /\ has_exp => (Len(edig) > 0 /\ AllDigits(edig))
    THEN Some(MkF64(neg, DigitsToNat(ipart \o fpart),
                    IF eneg THEN Len(fpart) + DigitsToNat(edig)
                    ELSE Len(fpart) - DigitsToNat(edig)))
    ELSE None

\* Number with mantissa and exponent split, di the position of the point
ParsePoint(neg, mant, di, has_exp, exp) ==
    ParseParts(neg, Before(mant, di), After(mant, di), has_exp,
               IsNegative(exp), StripSign(exp))

\* Number, ei the position of its 'e'
ParseExp(neg, body, ei) ==
    ParsePoint(neg, Before(body, ei), FirstIndex(Before(body, ei), "."),
               ei # 0, After(body, ei))

\* the text after the sign, in lower case
ParseUnsigned(neg, body) ==
    IF body = <<"i", "n", "f">>
       \/ body = <<"i", "n", "f", "i", "n", "i", "t", "y">>
    THEN Some(F64Inf(neg))
    ELSE IF body = <<"n", "a", "n">> THEN Some(F64NaN)
    ELSE ParseExp(neg, body, FirstIndex(body, "e"))

\* str::parse::<f64>: Some(value) when the whole text matches
\*   Sign? ( 'inf' | 'infinity' | 'nan' | Number ),
\*   Number ::= ( Digit+ | Digit+ '.' Digit* | Digit* '.' Digit+ ) Exp?,
\*   Exp ::= 'e' Sign? Digit+      (letters in either case)
\* and None otherwise (no surrounding whitespace is accepted)
parse_f64(s) == ParseUnsigned(IsNegative(s), Lower(StripSign(s)))

\* parse::<f64>().is_ok()
parses_f64(s) == IsSome(parse_f64(s))

unwrap_or(o, default) == IF IsSome(o) THEN o[1] ELSE default

\* parse::<f64>().unwrap_or(0.0)
parse_f64_or_zero(s) == unwrap_or(parse_f64(s), F64Zero)

RECURSIVE ZeroPad(_, _)
ZeroPad(s, n) == IF Len(s) >= n THEN s ELSE ZeroPad(<<"0">> \o s, n)

\* format!("{}", v) of an f64: plain decimal notation, no exponent
display_f64(v) ==
    IF v.k = "nan" THEN <<"N", "a", "N">>
    ELSE IF v.k = "inf"
    THEN (IF v.neg THEN <<"-">> ELSE <<>>) \o <<"i", "n", "f">>
    ELSE (IF v.neg THEN <<"-">> ELSE <<>>)
         \o NatToDigits(v.m \div Pow10(v.e))
         \o (IF v.e = 0 THEN <<>>
             ELSE <<".">> \o ZeroPad(NatToDigits(v.m % Pow10(v.e)), v.e))

I64MaxDigits ==
    <<"9", "2", "2", "3", "3", "7", "2", "0", "3", "6", "8", "5", "4", "7",
      "7", "5", "8", "0", "7">>

I64MinDigits ==
    <<"-", "9", "2", "2", "3", "3", "7", "2", "0", "3", "6", "8", "5", "4", "7",
      "7", "5", "8", "0", "8">>

\* format!("{}", v as i64): the cast truncates toward zero, saturates and
\* sends NaN to 0
display_as_i64(v) ==
    IF v.k = "nan" THEN <<"0">>
    ELSE IF v.k = "inf" THEN (IF v.neg THEN I64MinDigits ELSE I64MaxDigits)
    ELSE (IF v.neg /\ v.m \div Pow10(v.e) > 0 THEN <<"-">> ELSE <<>>)
         \o NatToDigits(v.m \div Pow10(v.e))

-----------------------------------------------------------------------------
(* HashMap<String, String>: a function from keys to values.                *)

EmptyMap == [x \in {} |-> <<>>]

\* HashMap::insert: a later insert of the same key replaces the value
Insert(m, key, v) ==
    [x \in (DOMAIN m) \cup {key} |-> IF x = key THEN v ELSE m[x]]

NAME_KEY == <<"_", "_", "n", "a", "m", "e", "_", "_">>

-----------------------------------------------------------------------------
(* Results and errors (error.rs).                                          *)

Ok(v) == <<"Ok", v>>

Err(kind, detail) == <<"Err", kind, detail>>

IsOk(r) == r[1] = "Ok"

IsErr(r) == r[1] = "Err"

\* the outcomes of one request: a 2xx response, a transport failure
\* (reqwest::Error) or a non-2xx response
Outcomes == {"ok", "transport", "rejected"}

\* the error a failed request is turned into by the client method
RequestError(outcome) ==
    IF outcome = "transport" THEN Err("HttpError", "transport")
    ELSE Err("ApiError", "status")

-----------------------------------------------------------------------------
(* utils.rs: parse_time_range.                                             *)

\* i64::to_string
i64_to_string(n) ==
    IF n < 0 THEN <<"-">> \o NatToDigits(0 - n) ELSE NatToDigits(n)

\* the match with every day counted as an hour
RangeSeconds_days_as_hours(range) ==
    CASE range \in {<<"1", "h">>, <<"1", "h", "o", "u", "r">>} -> 3600
      [] range \in {<<"6", "h">>, <<"6", "h", "o", "u", "r", "s">>} -> 6 * 3600
      [] range \in {<<"2", "4", "h">>, <<"1", "d">>, <<"1", "d", "a", "y">>} -> 3600
      [] range \in {<<"7", "d">>, <<"7", "d", "a", "y", "s">>} -> 7 * 3600
      [] range \in {<<"3", "0", "d">>, <<"3", "0", "d", "a", "y", "s">>} -> 30 * 3600
      [] OTHER -> 0

\* the arms of the match: the seconds of the chrono::Duration the arm of a
\* supported token subtracts from now, 0 for the arm of any other text
RangeSeconds(range) ==
    CASE range \in {<<"1", "h">>, <<"1", "h", "o", "u", "r">>} -> 3600
      [] range \in {<<"6", "h">>, <<"6", "h", "o", "u", "r", "s">>} -> 6 * 3600
      [] range \in {<<"2", "4", "h">>, <<"1", "d">>, <<"1", "d", "a", "y">>} -> 86400
      [] range \in {<<"7", "d">>, <<"7", "d", "a", "y", "s">>} -> 7 * 86400
      [] range \in {<<"3", "0", "d">>, <<"3", "0", "d", "a", "y", "s">>} -> 30 * 86400
      [] OTHER -> 0

\* the fixed text the message of the last arm starts with, as one element
UNKNOWN_RANGE == <<"unknown time range: ">>

\* parse_time_range with the message of the last arm left without the text
parse_time_range_bare_message(range, now) ==
    IF RangeSeconds(range) > 0
    THEN Ok(<<i64_to_string(now - RangeSeconds(range)), i64_to_string(now)>>)
    ELSE Err("UnknownRange", UNKNOWN_RANGE)

\* parse_time_range at the instant now: Ok((start, end)), the two
\* timestamps printed in decimal, or Err(format!("..: {}", range))
parse_time_range(range, now) ==
    IF RangeSeconds(range) > 0
    THEN Ok(<<i64_to_string(now - RangeSeconds(range)), i64_to_string(now)>>)
    ELSE Err("UnknownRange", UNKNOWN_RANGE \o range)

-----------------------------------------------------------------------------
(* commands/export.rs.                                                     *)

\* a line the loops of format_data skip: a comment or a blank line
export_skips(line) == starts_with(line, "#") \/ trim(line) = <<>>

\* one pass of the loop over labels.split(','): a piece with an '=' inserts
\* its key with the value stripped of surrounding double quotes
insert_label(metric_info, kv) ==
    IF IsSome(kv)
    THEN Insert(metric_info, kv[1][1], trim_matches(kv[1][2], "\""))
    ELSE metric_info

RECURSIVE insert_labels(_, _)
insert_labels(metric_info, pieces) ==
    IF pieces = <<>> THEN metric_info
    ELSE insert_labels(insert_label(metric_info, split_once(Head(pieces), "=")),
                       Tail(pieces))

\* the labels of a metric part with a '{', once __name__ is inserted:
\* labels is what strip_suffix('}') gives for the text after the '{'
metric_labels(named, labels) ==
    IF IsSome(labels) THEN insert_labels(named, split(labels[1], ",")) ELSE named

\* metric_info for a metric part, nl being metric_part.split_once('{')
metric_info_of(metric_part, nl) ==
    IF IsSome(nl)
    THEN metric_labels(Insert(EmptyMap, NAME_KEY, nl[1][1]),
                       strip_suffix(nl[1][2], "}"))
    ELSE Insert(EmptyMap, NAME_KEY, metric_part)

\* the entry pushed for a line, tv being value_part.rsplit_once(' ')
export_json_entry(metric_part, tv) ==
    IF IsSome(tv)
    THEN <<[metric |-> metric_info_of(metric_part, split_once(metric_part, "{")),
            value  |-> <<parse_f64_or_zero(tv[1][1]),
                         parse_f64_or_zero(tv[1][2])>>]>>
    ELSE <<>>

\* the entries pushed for a line, mv being line.rsplit_once(' ')
export_json_split(mv) ==
    IF IsSome(mv)
    THEN export_json_entry(mv[1][1], rsplit_once(mv[1][2], " "))
    ELSE <<>>

\* the body of the JSON loop for one line: the entries it pushes (0 or 1)
export_json_line(line) ==
    IF export_skips(line) THEN <<>>
    ELSE export_json_split(rsplit_once(line, " "))

RECURSIVE export_json(_)
\* ExportFormat::Json: the array of entries, in the order of the lines
export_json(ls) ==
    IF ls = <<>> THEN <<>>
    ELSE export_json_line(Head(ls)) \o export_json(Tail(ls))

\* the row appended for a line, tv being value_part.rsplit_once(' ') and
\* nl being metric_part.split_once('{')
export_csv_row(metric_part, nl, tv) ==
    IF IsSome(tv)
    THEN <<"\n">> \o tv[1][1] \o <<",">> \o tv[1][2] \o <<",">>
         \o (IF IsSome(nl) THEN nl[1][1] ELSE metric_part)
    ELSE <<>>

\* the text appended for a line, mv being line.rsplit_once(' ')
export_csv_split(mv) ==
    IF IsSome(mv)
    THEN export_csv_row(mv[1][1], split_once(mv[1][1], "{"),
                        rsplit_once(mv[1][2], " "))
    ELSE <<>>

\* the body of the CSV loop for one line: the text it appends
export_csv_line(line) ==
    IF export_skips(line) THEN <<>>
    ELSE export_csv_split(rsplit_once(line, " "))

CSV_HEADER ==
    <<"t", "i", "m", "e", "s", "t", "a", "m", "p", ",", "v", "a", "l", "u", "e",
      ",", "m", "e", "t", "r", "i", "c", "_", "n", "a", "m", "e">>

RECURSIVE export_csv_rows(_)
export_csv_rows(ls) ==
    IF ls = <<>> THEN <<>>
    ELSE export_csv_line(Head(ls)) \o export_csv_rows(Tail(ls))

\* ExportFormat::Csv: the header and the rows appended to it
export_csv(ls) == CSV_HEADER \o export_csv_rows(ls)

\* ExportCommand::format_data: the formatted output.  JSON output is kept
\* as the array serde_json prints, text output as text.
format_data(format, data) ==
    CASE format = "prometheus" -> [kind |-> "text", text |-> data, json |-> <<>>]
      [] format = "json" ->
            [kind |-> "json", text |-> <<>>, json |-> export_json(lines(data))]
      [] format = "csv" ->
            [kind |-> "text", text |-> export_csv(lines(data)), json |-> <<>>]

\* .map_err(|e| VmCliError::TimeParseError(e))
map_time_err(r) == IF IsOk(r) THEN r ELSE Err("TimeParseError", r[3])

\* determine_time_range with the explicit start and end consulted before
\* the range token
determine_time_range_explicit_first(c, now) ==
    IF IsSome(c.start) /\ IsSome(c.end) THEN Ok(<<c.start[1], c.end[1]>>)
    ELSE IF IsSome(c.range) THEN map_time_err(parse_time_range(c.range[1], now))
    ELSE map_time_err(parse_time_range(<<"1", "h">>, now))

\* ExportCommand::determine_time_range
determine_time_range(c, now) ==
    IF IsSome(c.range) THEN map_time_err(parse_time_range(c.range[1], now))
    ELSE IF IsSome(c.start) /\ IsSome(c.end) THEN Ok(<<c.start[1], c.end[1]>>)
    ELSE map_time_err(parse_time_range(<<"1", "h">>, now))

-----------------------------------------------------------------------------
(* serde_json::Value: <<"num", f64>>, <<"str", text>>,                     *)
(* <<"arr", sequence of values>>, <<"obj", sequence of <<key, value>>>>    *)
(* with distinct keys, in the order the map iterates.                      *)

JNum(v) == <<"num", v>>

JStr(t) == <<"str", t>>

JArr(a) == <<"arr", a>>

JObj(members) == <<"obj", members>>

\* Value::get(key): Some(value) for a member of an object, None otherwise
json_get(v, key) ==
    IF v[1] = "obj" /\ \E i \in 1..Len(v[2]) : v[2][i][1] = key
    THEN Some(v[2][CHOOSE i \in 1..Len(v[2]) : v[2][i][1] = key][2])
    ELSE None

\* Value::as_object
as_object(v) == IF v[1] = "obj" THEN Some(v[2]) ELSE None

\* Value::as_array
as_array(v) == IF v[1] = "arr" THEN Some(v[2]) ELSE None

\* Value::as_f64
as_f64(v) == IF v[1] = "num" THEN Some(v[2]) ELSE None

\* Value::as_str
as_str(v) == IF v[1] = "str" THEN Some(v[2]) ELSE None

UNKNOWN == <<"u", "n", "k", "n", "o", "w", "n">>

T_metric == <<"m", "e", "t", "r", "i", "c">>

T_value == <<"v", "a", "l", "u", "e">>

-----------------------------------------------------------------------------
(* commands/import.rs.                                                     *)

\* the numeric check of is_valid_prometheus_line, tv being
\* value_part.rsplit_once(' ')
valid_value_part(value_part, tv) ==
    IF IsSome(tv)
    THEN parses_f64(tv[1][1]) /\ parses_f64(tv[1][2])
    ELSE parses_f64(value_part)

\* is_valid_prometheus_line without the test of the braces
valid_split_braces_unchecked(mv) ==
    IF IsSome(mv)
    THEN valid_value_part(mv[1][2], rsplit_once(mv[1][2], " "))
    ELSE FALSE

\* is_valid_prometheus_line, mv being line.rsplit_once(' ')
valid_split(mv) ==
    IF IsSome(mv)
    THEN IF contains_char(mv[1][1], "{") /\ ~contains_char(mv[1][1], "}")
         THEN FALSE
         ELSE valid_value_part(mv[1][2], rsplit_once(mv[1][2], " "))
    ELSE FALSE

\* ImportCommand::is_valid_prometheus_line
is_valid_prometheus_line(line) == valid_split(rsplit_once(line, " "))

RECURSIVE validate_loop(_, _, _, _)
RECURSIVE validate_line(_, _, _, _, _)
\* the loop of validate_prometheus_format from the line with 0-based index
\* line_num on; acc holds line_count, error_count, the warnings written to
\* stderr and the Result so far
validate_loop(ls, line_num, skip_errors, acc) ==
    IF line_num >= Len(ls) THEN acc
    ELSE validate_line(ls, line_num, skip_errors, trim(ls[line_num + 1]),
                       [acc EXCEPT !.line_count = @ + 1])

\* one pass of the loop with the lines that start with '#' checked like
\* any other line
validate_line_comments_checked(ls, line_num, skip_errors, line, acc) ==
    IF line = <<>> \/ is_valid_prometheus_line(line)
    THEN validate_loop(ls, line_num + 1, skip_errors, acc)
    ELSE IF ~skip_errors
    THEN [acc EXCEPT !.error_count = @ + 1,
                     !.result = Err("InvalidQuery",
                                    [line_number |-> line_num + 1,
                                     content |-> line])]
    ELSE validate_loop(ls, line_num + 1, skip_errors,
             [acc EXCEPT !.error_count = @ + 1,
                         !.warnings = Append(@, <<"warning", line_num + 1, line>>)])

\* one pass of the loop: line is the trimmed line, acc has it counted
validate_line(ls, line_num, skip_errors, line, acc) ==
    IF line = <<>> \/ starts_with(line, "#") \/ is_valid_prometheus_line(line)
    THEN validate_loop(ls, line_num + 1, skip_errors, acc)
    ELSE IF ~skip_errors
    THEN [acc EXCEPT !.error_count = @ + 1,
                     !.result = Err("InvalidQuery",
                                    [line_number |-> line_num + 1,
                                     content |-> line])]
    ELSE validate_loop(ls, line_num + 1, skip_errors,
             [acc EXCEPT !.error_count = @ + 1,
                         !.warnings = Append(@, <<"warning", line_num + 1, line>>)])

\* what validate_prometheus_format leaves once the loop has ended with r:
\* the Result, the counters, the warnings and the summary line on stdout
validation_report(r) ==
    [result      |-> r.result,
     line_count  |-> r.line_count,
     error_count |-> r.error_count,
     stderr      |-> r.warnings,
     stdout      |-> IF IsOk(r.result) /\ r.error_count > 0
                     THEN <<<<"found_errors", r.error_count, r.line_count>>>>
                     ELSE <<>>]

\* ImportCommand::validate_prometheus_format
validate_prometheus_format(content, skip_errors) ==
    validation_report(
        validate_loop(lines(content), 0, skip_errors,
            [line_count |-> 0, error_count |-> 0, warnings |-> <<>>,
             result |-> Ok(<<>>)]))

RECURSIVE json_labels(_)
\* the labels of a metric object: every member but __name__, as key="value"
json_labels(members) ==
    IF members = <<>> THEN <<>>
    ELSE (IF Head(members)[1] # NAME_KEY
          THEN <<Head(members)[1] \o <<"=", "\"">>
                 \o unwrap_or(as_str(Head(members)[2]), <<>>) \o <<"\"">>>>
          ELSE <<>>)
         \o json_labels(Tail(members))

\* metric_str once the name is pushed, with the label block written even
\* when there are no labels
with_labels_always_block(metric_str, labels) ==
    metric_str \o <<"{">> \o Join(labels, <<",">>) \o <<"}">>

\* metric_str once the name is pushed: the label block follows when there
\* are labels
with_labels(metric_str, labels) ==
    IF labels # <<>>
    THEN metric_str \o <<"{">> \o Join(labels, <<",">>) \o <<"}">>
    ELSE metric_str

\* the name pushed to metric_str, name being metric_obj.get("__name__")
name_text(name) ==
    IF IsSome(name) THEN unwrap_or(as_str(name[1]), UNKNOWN) ELSE <<>>

\* the line for an item whose value array has two elements
json_sample_line(metric_v, timestamp, val) ==
    IF IsSome(timestamp) /\ IsSome(val)
    THEN with_labels(name_text(json_get(metric_v, NAME_KEY)),
                     json_labels(metric_v[2]))
         \o <<" ">> \o display_f64(val[1])
         \o <<" ">> \o display_as_i64(timestamp[1]) \o <<"\n">>
    ELSE <<>>

\* the text for an item with a metric and a value member
json_metric_value(metric_v, value_v) ==
    IF IsSome(as_object(metric_v)) /\ IsSome(as_array(value_v))
    THEN IF Len(value_v[2]) = 2
         THEN json_sample_line(metric_v, as_f64(value_v[2][1]),
                               as_f64(value_v[2][2]))
         ELSE <<>>
    ELSE <<>>

\* the text for an item, metric and value being item.get(..) of the two
json_item_parts(metric, value) ==
    IF IsSome(metric) /\ IsSome(value)
    THEN json_metric_value(metric[1], value[1])
    ELSE <<>>

\* the body of the loop of convert_json_to_prometheus for one item: the
\* text it appends
convert_json_item(item) ==
    json_item_parts(json_get(item, T_metric), json_get(item, T_value))

RECURSIVE convert_json_items(_)
convert_json_items(items) ==
    IF items = <<>> THEN <<>>
    ELSE convert_json_item(Head(items)) \o convert_json_items(Tail(items))

\* ImportCommand::convert_json_to_prometheus.  The document is None when
\* serde_json::from_str fails and Some(value) otherwise.
convert_json_to_prometheus(doc) ==
    IF ~IsSome(doc) THEN Err("JsonError", "parse")
    ELSE IF doc[1][1] = "arr" THEN Ok(convert_json_items(doc[1][2]))
    ELSE Ok(<<>>)

\* the line appended for a record of at least three fields, ts and val
\* being the parsed first and second field
csv_sample_line(metric_name, ts, val) ==
    IF IsSome(ts) /\ IsSome(val)
    THEN metric_name \o <<" ">> \o display_f64(val[1]) \o <<" ">>
         \o display_as_i64(ts[1]) \o <<"\n">>
    ELSE <<>>

\* the body of the loop of convert_csv_to_prometheus for one record
convert_csv_record(record) ==
    IF Len(record) >= 3
    THEN csv_sample_line(record[3], parse_f64(record[1]), parse_f64(record[2]))
    ELSE <<>>

RECURSIVE convert_csv_records(_, _, _)
\* the loop of convert_csv_to_prometheus over the records after the header;
\* the reader yields an error for a record whose number of fields differs
\* from the header's
convert_csv_records(header, records, prometheus_data) ==
    IF records = <<>> THEN Ok(prometheus_data)
    ELSE IF Len(Head(records)) # Len(header)
    THEN Err("CsvError", "UnequalLengths")
    ELSE convert_csv_records(header, Tail(records),
                             prometheus_data \o convert_csv_record(Head(records)))

\* ImportCommand::convert_csv_to_prometheus.  The document is the sequence
\* of its records; the first one is the header the reader skips.
convert_csv_to_prometheus(doc) ==
    IF doc = <<>> THEN Ok(<<>>)
    ELSE convert_csv_records(Head(doc), Tail(doc), <<>>)

\* what a conversion that writes nothing leaves
quiet(result) ==
    [result |-> result, line_count |-> 0, error_count |-> 0,
     stderr |-> <<>>, stdout |-> <<>>]

RECURSIVE accepted_lines(_)
\* the lines the validation finds no fault with, each ended by a newline
accepted_lines(ls) ==
    IF ls = <<>> THEN <<>>
    ELSE (IF \/ trim(Head(ls)) = <<>>
             \/ starts_with(trim(Head(ls)), "#")
             \/ is_valid_prometheus_line(trim(Head(ls)))
          THEN Head(ls) \o <<"\n">>
          ELSE <<>>)
         \o accepted_lines(Tail(ls))

\* ImportFormat::Prometheus with the lines that were warned about removed
validated_without_warned(content, v) ==
    [v EXCEPT !.result = IF IsOk(v.result) THEN Ok(accepted_lines(lines(content)))
                         ELSE @]

\* ImportFormat::Prometheus: the content itself when the validation passed
validated(content, v) ==
    [v EXCEPT !.result = IF IsOk(v.result) THEN Ok(content) ELSE @]

\* ImportCommand::prepare_data: the returned Result and what the validation
\* wrote and counted
prepare_data(format, content, skip_errors) ==
    CASE format = "prometheus" ->
            validated(content, validate_prometheus_format(content, skip_errors))
      [] format = "json" -> quiet(convert_json_to_prometheus(content))
      [] format = "csv" -> quiet(convert_csv_to_prometheus(content))

-----------------------------------------------------------------------------
(* utils.rs: validate_promql_query.                                        *)

valid_operators ==
    << <<"+">>, <<"-">>, <<"*">>, <<"/">>, <<"%">>, <<"=", "=">>, <<"!", "=">>,
       <<">">>, <<"<">>, <<">", "=">>, <<"<", "=">> >>

valid_functions ==
    << <<"s", "u", "m">>, <<"a", "v", "g">>, <<"c", "o", "u", "n", "t">>,
       <<"m", "i", "n">>, <<"m", "a", "x">>, <<"r", "a", "t", "e">>,
       <<"i", "n", "c", "r", "e", "a", "s", "e">> >>

\* pats.iter().any(|p| query.contains(p))
contains_any(query, pats) == \E i \in 1..Len(pats) : contains(query, pats[i])

\* query.chars().all(..): every character is alphanumeric or one of the
\* characters a selector is written with
is_simple_metric(query) ==
    \A i \in 1..Len(query) :
        is_alphanumeric(query[i]) \/ query[i] \in {"_", "{", "}", "=", "\"", ",", " "}

\* validate_promql_query with the function names matched as whole queries
\* instead of as substrings
validate_promql_query_whole_names(query) ==
    IF trim(query) = <<>> THEN Err("String", "empty")
    ELSE IF /\ ~contains_any(query, valid_operators)
            /\ ~(\E i \in 1..Len(valid_functions) : query = valid_functions[i])
            /\ ~contains_char(query, "{")
            /\ ~is_simple_metric(query)
    THEN Err("String", "unrecognised")
    ELSE Ok(<<>>)

\* validate_promql_query with the emptiness tested on the query as given
validate_promql_query_untrimmed(query) ==
    IF query = <<>> THEN Err("String", "empty")
    ELSE IF /\ ~contains_any(query, valid_operators)
            /\ ~contains_any(query, valid_functions)
            /\ ~contains_char(query, "{")
            /\ ~is_simple_metric(query)
    THEN Err("String", "unrecognised")
    ELSE Ok(<<>>)

\* validate_promql_query: Ok(()) or Err(message)
validate_promql_query(query) ==
    IF trim(query) = <<>> THEN Err("String", "empty")
    ELSE IF /\ ~contains_any(query, valid_operators)
            /\ ~contains_any(query, valid_functions)
            /\ ~contains_char(query, "{")
            /\ ~is_simple_metric(query)
    THEN Err("String", "unrecognised")
    ELSE Ok(<<>>)

-----------------------------------------------------------------------------
(* The configuration and the transport client.  An address is a string, a  *)
(* path the sequence of its segments: /api/v1/query is                     *)
(* <<"api", "v1", "query">>, /health is <<"health">>.                      *)

DEFAULT_HOST == "http://localhost:8428"

DEFAULT_TIMEOUT == 30

\* the default of ClusterConfig's query_endpoint, and the path of
\* VmClient::query
QUERY_ENDPOINT == <<"api", "v1", "query">>

\* config.rs ClusterConfig, as far as the client reads it
Cluster(vmstorage_host, use_select_endpoint, query_endpoint, select_account_id) ==
    Some([vmstorage_host |-> vmstorage_host,
          use_select_endpoint |-> use_select_endpoint,
          query_endpoint |-> query_endpoint,
          select_account_id |-> select_account_id])

\* a key of the configuration: its default, overridden by the config file,
\* overridden by the environment (the order the sources are added in)
config_value(default, file, env) ==
    IF IsSome(env) THEN env[1]
    ELSE IF IsSome(file) THEN file[1]
    ELSE default

\* Config::load
Config_load(file, env, cluster) ==
    [host |-> config_value(DEFAULT_HOST, file.host, env.host),
     timeout |-> config_value(DEFAULT_TIMEOUT, file.timeout, env.timeout),
     cluster |-> cluster]

\* main: --host and --timeout, replaced by VM_HOST and VM_TIMEOUT when they
\* are at their defaults
cli_args(args, env) ==
    [host |-> IF args.host = DEFAULT_HOST /\ IsSome(env.host)
              THEN env.host[1] ELSE args.host,
     timeout |-> IF args.timeout = DEFAULT_TIMEOUT /\ IsSome(env.timeout)
                 THEN env.timeout[1] ELSE args.timeout]

\* VmClient::new
VmClient_new(host, timeout, cluster_config) ==
    [base_url |-> host, timeout |-> timeout, cluster_config |-> cluster_config]

\* default_endpoint.starts_with("/api/")
starts_with_api(path) == Len(path) >= 2 /\ path[1] = "api"

\* VmClient::get_endpoint with the range-query path kept apart from the
\* query endpoint of the cluster section
get_endpoint_by_default(client, default_endpoint) ==
    IF IsSome(client.cluster_config) /\ client.cluster_config[1].use_select_endpoint
       /\ starts_with_api(default_endpoint)
    THEN <<"select", client.cluster_config[1].select_account_id, "prometheus">>
         \o default_endpoint
    ELSE IF IsSome(client.cluster_config)
            /\ ~client.cluster_config[1].use_select_endpoint
            /\ default_endpoint = QUERY_ENDPOINT
    THEN client.cluster_config[1].query_endpoint
    ELSE default_endpoint

\* VmClient::get_endpoint
get_endpoint(client, default_endpoint) ==
    IF IsSome(client.cluster_config)
    THEN IF client.cluster_config[1].use_select_endpoint
         THEN IF starts_with_api(default_endpoint)
              THEN <<"select", client.cluster_config[1].select_account_id,
                     "prometheus">> \o default_endpoint
              ELSE default_endpoint
         ELSE client.cluster_config[1].query_endpoint
    ELSE default_endpoint

\* the snapshot methods: the address of vmstorage with a cluster section,
\* the base address without one
snapshot_host(client) ==
    IF IsSome(client.cluster_config)
    THEN client.cluster_config[1].vmstorage_host[1]
    ELSE client.base_url

\* let url = ..: the address and the path each method of the client sends
\* its request to (get_slow_queries and get_metrics_info are called by
\* debug.rs and not defined in api.rs: their name stands for their path)
url(client, api) ==
    CASE api = "query" -> <<client.base_url, get_endpoint(client, QUERY_ENDPOINT)>>
      [] api = "query_range" ->
            <<client.base_url, get_endpoint(client, <<"api", "v1", "query_range">>)>>
      [] api = "health" -> <<client.base_url, get_endpoint(client, <<"health">>)>>
      [] api = "metrics" ->
            <<client.base_url,
              get_endpoint(client, <<"api", "v1", "label", "__name__", "values">>)>>
      [] api = "delete_series" ->
            <<client.base_url, <<"api", "v1", "admin", "tsdb", "delete_series">>>>
      [] api = "export" -> <<client.base_url, <<"api", "v1", "export">>>>
      [] api = "import" -> <<client.base_url, <<"api", "v1", "import">>>>
      [] api = "create_snapshot" -> <<snapshot_host(client), <<"snapshot", "create">>>>
      [] api = "list_snapshots" -> <<snapshot_host(client), <<"snapshot", "list">>>>
      [] api = "delete_snapshot" -> <<snapshot_host(client), <<"snapshot", "delete">>>>
      [] api = "restore_snapshot" -> <<snapshot_host(client), <<"snapshot", "restore">>>>
      [] api \in {"get_retention_info", "set_retention"} ->
            <<client.base_url, <<"admin", "tsdb", "retention">>>>
      [] api = "get_flags" -> <<client.base_url, <<"flags">>>>
      [] api = "get_build_info" ->
            <<client.base_url, <<"api", "v1", "status", "buildinfo">>>>
      [] OTHER -> <<client.base_url, <<api>>>>

-----------------------------------------------------------------------------
(* The inputs of an invocation.                                            *)

SP == <<" ">>

NL == <<"\n">>

LBL_A == <<"a", "=", "\"", "1", "\"">>

LBL_B == <<"b", "=", "\"", "2", "\"">>

L_plain == <<"m">> \o SP \o <<"3", ".", "5">> \o SP \o <<"1", "7">>

L_labels ==
    <<"m", "{">> \o LBL_A \o <<",">> \o LBL_B \o <<"}">> \o SP
        \o <<"3", ".", "5">> \o SP \o <<"1", "7">>

L_no_timestamp == <<"m">> \o SP \o <<"3", ".", "5">>

L_bad_value == <<"m">> \o SP \o <<"x">> \o SP \o <<"1", "7">>

L_bad_timestamp == <<"m">> \o SP \o <<"3", ".", "5">> \o SP \o <<"x">>

L_open_brace ==
    <<"m", "{">> \o LBL_A \o SP \o <<"3", ".", "5">> \o SP \o <<"1", "7">>

L_comment == <<"#">> \o SP \o <<"c">>

L_name_only == <<"m">>

L_blank == <<" ">>

\* the exposition lines files and response bodies are made of
PromLines ==
    { L_plain, L_labels, L_no_timestamp, L_bad_value, L_bad_timestamp,
      L_open_brace, L_comment, L_name_only, L_blank, <<>> }

RECURSIVE TextOfLines(_)
\* the text whose lines are ls, each ended by a newline
TextOfLines(ls) ==
    IF ls = <<>> THEN <<>> ELSE Head(ls) \o NL \o TextOfLines(Tail(ls))

\* the sequences of at most n elements of S
SeqsUpTo(S, n) == UNION { [1..k -> S] : k \in 0..n }

\* the texts of at most MaxLines lines
PromTexts == { TextOfLines(ls) : ls \in SeqsUpTo(PromLines, MaxLines) }

F_17 == [k |-> "fin", neg |-> FALSE, m |-> 17, e |-> 0]

F_17_9 == [k |-> "fin", neg |-> FALSE, m |-> 179, e |-> 1]

F_3_5 == [k |-> "fin", neg |-> FALSE, m |-> 35, e |-> 1]

METRIC_M == JObj(<< <<NAME_KEY, JStr(<<"m">>)>> >>)

\* an item of a JSON import document with the given metric and value
JsonItem(metric_v, value_v) == JObj(<< <<T_metric, metric_v>>, <<T_value, value_v>> >>)

\* the items of a JSON import document: samples with and without labels,
\* with the value as a number or (as the query API prints it) as a string,
\* and items that lack a part of the sample
JsonItems ==
    { JsonItem(METRIC_M, JArr(<<JNum(F_17), JNum(F_3_5)>>)),
      JsonItem(JObj(<< <<NAME_KEY, JStr(<<"m">>)>>, <<<<"a">>, JStr(<<"1">>)>> >>),
               JArr(<<JNum(F_17_9), JNum(F_3_5)>>)),
      JsonItem(JObj(<< <<<<"a">>, JStr(<<"1">>)>> >>),
               JArr(<<JNum(F_17), JNum(F_3_5)>>)),
      JsonItem(JObj(<< <<NAME_KEY, JNum(F_17)>> >>),
               JArr(<<JNum(F_17), JNum(F_3_5)>>)),
      JObj(<< <<T_metric, METRIC_M>> >>),
      JsonItem(METRIC_M, JArr(<<JStr(<<"x">>), JNum(F_3_5)>>)),
      JsonItem(METRIC_M, JArr(<<JNum(F_17), JStr(<<"3", ".", "5">>)>>)),
      JsonItem(METRIC_M, JArr(<<JNum(F_17)>>)),
      JsonItem(JStr(<<"m">>), JArr(<<JNum(F_17), JNum(F_3_5)>>)),
      JNum(F_17) }

\* the JSON import documents: text that does not parse (None), a document
\* that is no array, and the arrays of at most MaxItems items
JsonDocs ==
    {None, Some(METRIC_M)}
    \cup { Some(JArr(items)) : items \in SeqsUpTo(JsonItems, MaxItems) }

CsvHeaders ==
    { <<<<"t", "s">>, <<"v">>, <<"n">>>>, <<<<"t", "s">>, <<"v">>>> }

R_sample == <<<<"1", "7">>, <<"3", ".", "5">>, <<"m">>>>

R_fraction == <<<<"1", "7", ".", "9">>, <<"3", ".", "5", "0">>, <<"m">>>>

R_bad_timestamp == <<<<"x">>, <<"3", ".", "5">>, <<"m">>>>

R_bad_value == <<<<"1", "7">>, <<"y">>, <<"m">>>>

R_short == <<<<"1", "7">>, <<"3", ".", "5">>>>

CsvRecords == {R_sample, R_fraction, R_bad_timestamp, R_bad_value, R_short}

\* the CSV import documents: empty, or a header and at most MaxRecords records
CsvDocs ==
    {<<>>}
    \cup { <<h>> \o rs : h \in CsvHeaders, rs \in SeqsUpTo(CsvRecords, MaxRecords) }

\* the instant the invocation runs at, in seconds since the epoch
Nows == {1700000000}

\* a second instant, for the invocations that resolve a range token
RangeNows == {1700000000, 1699999999}

T_1h == <<"1", "h">>

T_1hour == <<"1", "h", "o", "u", "r">>

T_6h == <<"6", "h">>

T_6hours == <<"6", "h", "o", "u", "r", "s">>

T_24h == <<"2", "4", "h">>

T_1d == <<"1", "d">>

T_1day == <<"1", "d", "a", "y">>

T_7d == <<"7", "d">>

T_7days == <<"7", "d", "a", "y", "s">>

T_30d == <<"3", "0", "d">>

T_30days == <<"3", "0", "d", "a", "y", "s">>

T_2h == <<"2", "h">>

\* the texts given to --range: the supported tokens, and a token in the
\* other case, another duration, a text that is no duration, the empty text
RangeTokens ==
    { T_1h, T_1hour, T_6h, T_6hours, T_24h, T_1d, T_1day, T_7d, T_7days,
      T_30d, T_30days, <<"1", "H">>, T_2h, <<"5", "x">>, <<>> }

\* the instants an invocation of the command line c is run at
NowsOf(c) ==
    IF c.cmd \in {"query", "export"} /\ c.range # None THEN RangeNows ELSE Nows

\* the pieces queries are concatenated from
QueryToks ==
    { <<"u", "p">>, <<"m">>, <<"[", "5", "m", "]">>, <<"(", "1", ")">>,
      <<"(", "m", ")">>, <<"v", "e", "c", "t", "o", "r">>, <<"a", "b", "s">>,
      <<"r", "a", "t", "e">>, <<":">>, <<">", "=">>, <<"{", "}">>, <<" ">>,
      <<"\t">> }

Q_up == <<"u", "p">>

Q_rate ==
    <<"r", "a", "t", "e", "(", "h", "t", "t", "p", "_", "r", "e", "q", "u", "e",
      "s", "t", "s", "_", "t", "o", "t", "a", "l", "[", "5", "m", "]", ")">>

\* the queries: the concatenations of at most MaxQueryToks pieces, and the
\* rate over a range selector
Queries ==
    { Concat(ts) : ts \in SeqsUpTo(QueryToks, MaxQueryToks) } \cup {Q_rate}

OutputFormats == {"table", "json", "csv", "yaml"}

\* query: every query with the default options, and the options of a query
\* that passes the validation
QueryClis ==
    { [cmd |-> "query", query |-> q, range |-> None, count |-> FALSE,
       metrics_only |-> FALSE, format |-> "table"] : q \in Queries }
    \cup [cmd : {"query"}, query : {Q_up}, range : {None} \cup { Some(t) : t \in RangeTokens },
          count : BOOLEAN, metrics_only : BOOLEAN, format : OutputFormats]

HealthClis == [cmd : {"health"}, verbose : BOOLEAN, status_only : BOOLEAN]

ExportClis ==
    [cmd : {"export"}, format : {"prometheus", "json", "csv"},
     range : {None, Some(T_1h), Some(T_2h)},
     start : {None, Some(<<"2", "0">>), Some(<<"5">>)}, end : {None, Some(<<"1", "0">>)},
     output : {None, Some("out"), Some("denied")}]

ImportClis ==
    [cmd : {"import"}, format : {"prometheus", "json", "csv"},
     dry_run : BOOLEAN, skip_errors : BOOLEAN]

AdminClis ==
    [cmd : {"admin"}, sub : {"delete"}, confirm : BOOLEAN,
     start : {None, Some(10)}, end : {None, Some(20)}]
    \cup [cmd : {"admin"}, sub : {"retention"}, set : {None, Some("30d")},
          show : BOOLEAN, check : BOOLEAN]
    \cup [cmd : {"admin"}, sub : {"snapshot"}, name : {None, Some("s1")},
          list : BOOLEAN, restore : {None, Some("s2")}, delete : {None, Some("s3")}]
    \cup [cmd : {"admin"}, sub : {"mode"}, readonly : BOOLEAN,
          maintenance : BOOLEAN, show : BOOLEAN]

\* the largest --count of debug performance
MaxCount == 2

DebugClis ==
    [cmd : {"debug"}, sub : {"slow_queries", "gaps"}]
    \cup [cmd : {"debug"}, sub : {"memory"}, verbose : BOOLEAN]
    \cup [cmd : {"debug"}, sub : {"performance"}, count : 0..MaxCount]
    \cup [cmd : {"debug"}, sub : {"metrics"}, pattern : {None, Some(<<"u">>)},
          stats : BOOLEAN, export : {None, Some("out"), Some("denied")}]

\* the cluster section of the configuration, as far as the client reads it:
\* absent, or present with or without a vmstorage_host
Clusters ==
    {None, Cluster(None, FALSE, QUERY_ENDPOINT, "0"),
     Cluster(Some("http://storage:8482"), FALSE, QUERY_ENDPOINT, "0")}

\* the cluster sections the endpoints are resolved under: absent, the
\* query endpoint left at its default or set, the select endpoints of the
\* default account and of another one
EndpointClusters ==
    {None, Cluster(None, FALSE, QUERY_ENDPOINT, "0"),
     Cluster(None, FALSE, <<"custom", "query">>, "0"),
     Cluster(None, TRUE, QUERY_ENDPOINT, "0"),
     Cluster(None, TRUE, <<"custom", "query">>, "7")}

\* an invocation with the global options, the config file and the
\* environment at their defaults
DefaultSetup ==
    [args |-> [host |-> DEFAULT_HOST, timeout |-> DEFAULT_TIMEOUT],
     file |-> [host |-> None, timeout |-> None],
     env |-> [host |-> None, timeout |-> None]]

\* --host and --timeout left out or given, the keys host and timeout of
\* the config file and the variables VM_HOST and VM_TIMEOUT unset or set
Setups ==
    [args : [host : {DEFAULT_HOST, "http://flag:1"}, timeout : {DEFAULT_TIMEOUT, 5}],
     file : {[host |-> None, timeout |-> None],
             [host |-> Some("http://file:2"), timeout |-> None],
             [host |-> Some("http://file:2"), timeout |-> Some(10)]},
     env : {[host |-> None, timeout |-> None],
            [host |-> None, timeout |-> Some(20)],
            [host |-> Some("http://env:3"), timeout |-> Some(20)]}]

\* the maps a query result carries as its metric
ResultMetrics ==
    { EmptyMap,
      Insert(EmptyMap, NAME_KEY, <<"m">>),
      Insert(Insert(Insert(EmptyMap, NAME_KEY, <<"m">>), <<"a">>, <<"1">>),
             <<"b">>, <<"2">>),
      Insert(Insert(EmptyMap, NAME_KEY, <<"m">>), <<"a">>, <<"1", ",", "2">>) }

\* api.rs QueryResult: an instant sample, a range of samples, or neither
QueryResults ==
    { [metric |-> mt, value |-> v, values |-> vs] :
        mt \in ResultMetrics,
        v \in {None, Some(<<F_17, <<"3", ".", "5">>>>)},
        vs \in {None, Some(<< <<F_17, <<"1">>>>, <<F_17_9, <<"2">>>> >>)} }

\* the result arrays of the query responses
MaxResults == 2

QueryResponses == SeqsUpTo(QueryResults, MaxResults)

\* an empty result array, one of a range of samples and one of two samples
FewQueryResponses ==
    { <<>>,
      << [metric |-> Insert(EmptyMap, NAME_KEY, <<"m">>), value |-> None,
          values |-> Some(<< <<F_17, <<"1">>>>, <<F_17_9, <<"2">>>> >>)] >>,
      << [metric |-> Insert(Insert(Insert(EmptyMap, NAME_KEY, <<"m">>), <<"a">>,
                                   <<"1">>), <<"b">>, <<"2">>),
          value |-> Some(<<F_17, <<"3", ".", "5">>>>), values |-> None],
         [metric |-> EmptyMap, value |-> Some(<<F_17_9, <<"1">>>>),
          values |-> None] >> }

\* the bodies of a 2xx answer of /health
HealthBodies ==
    { <<"O", "K">>, <<"o", "k", "\n">>, <<"e", "r", "r", "o", "r">>,
      <<"d", "o", "w", "n">> }

\* the lists of metric names of a 2xx answer of the label values API
MetricsLists == { <<>>, << <<"u", "p">>, <<"m">> >> }

\* the world of an invocation that reads no file: answer is what the
\* backend answers the request of the command with when it answers 2xx
BackendWorlds(nows, clusters, answers) ==
    { [now |-> n, file |-> "none", content |-> <<>>, cluster |-> c, answer |-> a,
       setup |-> DefaultSetup] :
        n \in nows, c \in clusters, a \in answers }

\* the command lines whose requests go through get_endpoint, run under
\* every setup and every cluster section
ClientClis ==
    HealthClis
    \cup [cmd : {"query"}, query : {Q_up}, range : {None, Some(T_1h)},
          count : {FALSE}, metrics_only : {FALSE}, format : {"table"}]

\* the answers the command lines of ClientClis are run against
ClientAnswers(c) == IF c.cmd = "health" THEN HealthBodies ELSE {<<>>}

ClientWorlds(c) ==
    { [now |-> n, file |-> "none", content |-> <<>>, cluster |-> None, answer |-> a,
       setup |-> s] : n \in Nows, a \in ClientAnswers(c), s \in Setups }
    \cup BackendWorlds(Nows, EndpointClusters, ClientAnswers(c))

\* the import file: missing, unreadable, or readable with a content
ImportWorlds(format) ==
    { [now |-> n, file |-> f, content |-> <<>>, cluster |-> None, answer |-> <<>>,
       setup |-> DefaultSetup] :
        n \in Nows, f \in {"missing", "unreadable"} }
    \cup { [now |-> n, file |-> "ok", content |-> c, cluster |-> None,
            answer |-> <<>>, setup |-> DefaultSetup] :
             n \in Nows,
             c \in (CASE format = "prometheus" -> PromTexts
                      [] format = "json" -> JsonDocs
                      [] format = "csv" -> CsvDocs) }

\* the answers an invocation is run against: every body for an export
\* with the default window to stdout, every result array for the instant
\* query up printed in a format, and a few answers for the other command
\* lines
Answers(c) ==
    CASE c.cmd = "export" ->
            IF c.range = None /\ c.start = None /\ c.end = None /\ c.output = None
            THEN PromTexts
            ELSE {<<>>, TextOfLines(<<L_comment, L_labels, L_plain>>)}
      [] c.cmd = "query" ->
            IF c.query # Q_up THEN {<<>>}
            ELSE IF c.range = None /\ ~c.count /\ ~c.metrics_only
            THEN QueryResponses
            ELSE FewQueryResponses
      [] c.cmd = "health" -> HealthBodies
      [] c.cmd = "debug" ->
            IF c.sub = "gaps" THEN FewQueryResponses
            ELSE IF c.sub = "metrics" THEN MetricsLists
            ELSE {<<>>}
      [] OTHER -> {<<>>}

-----------------------------------------------------------------------------
(* The process: main dispatches the command, the command runs step by      *)
(* step (one step per request it awaits) and main reports its Result.      *)

Init ==
    /\ pc = "execute"
    /\ requests = <<>>
    /\ files = <<>>
    /\ stdout = <<>>
    /\ stderr = <<>>
    /\ ret = <<"none">>
    /\ exit_code = -1
    /\ locals = <<>>
    /\ line_count = 0
    /\ error_count = 0
    /\ \/ cli \in ImportClis /\ world \in ImportWorlds(cli.format)
       \/ cli \in ClientClis /\ world \in ClientWorlds(cli)
       \/ cli \in ExportClis \cup QueryClis \cup HealthClis \cup DebugClis
            /\ world \in BackendWorlds(NowsOf(cli), {None}, Answers(cli))
       \/ cli \in AdminClis
            /\ world \in BackendWorlds(Nows, IF cli.sub = "snapshot" THEN Clusters
                                             ELSE {None}, Answers(cli))

\* main: let config = Config::load(..)
config == Config_load(world.setup.file, world.setup.env, world.cluster)

\* main with the client built from the command-line options
api_client_from_args ==
    VmClient_new(cli_args(world.setup.args, world.setup.env).host,
                 cli_args(world.setup.args, world.setup.env).timeout,
                 config.cluster)

\* main: let api_client = api::VmClient::new(..)
api_client == VmClient_new(config.host, config.timeout, config.cluster)

\* one request: what was asked, where it was sent and under which timeout,
\* how it ended and what a 2xx response held
Request(api, arg, outcome, response) ==
    [api |-> api, arg |-> arg, outcome |-> outcome, response |-> response,
     url |-> url(api_client, api), timeout |-> api_client.timeout]

\* a step of a command that writes nothing to stderr: it sends reqs, prints
\* out and goes on at next_pc with the locals loc
Step(next_pc, reqs, out, loc) ==
    /\ pc' = next_pc
    /\ requests' = requests \o reqs
    /\ stdout' = stdout \o out
    /\ locals' = loc
    /\ UNCHANGED <<cli, world, files, stderr, ret, exit_code, line_count,
                   error_count>>

\* the last step of execute: it sends reqs, prints out and returns r to main
Return(r, reqs, out) ==
    /\ pc' = "returned"
    /\ ret' = r
    /\ requests' = requests \o reqs
    /\ stdout' = stdout \o out
    /\ UNCHANGED <<cli, world, files, stderr, exit_code, locals, line_count,
                   error_count>>

\* what `match request { Ok(..) => println!(..), Err(e) => println!(.., e) }`
\* prints: the lines of the success arm, or the error on stdout
MatchPrinted(outcome, ok_lines, what) ==
    IF outcome = "ok" THEN ok_lines
    ELSE << <<"error_printed", what, RequestError(outcome)>> >>

-----------------------------------------------------------------------------
(* import.                                                                 *)

\* ImportCommand::execute once prepare_data has returned p: its warnings
\* and counters are left, an error or a dry run ends the command, and
\* otherwise the prepared data waits for the import request
ImportPrepared(p) ==
    /\ stderr' = stderr \o p.stderr
    /\ line_count' = p.line_count
    /\ error_count' = p.error_count
    /\ requests' = requests
    /\ pc' = IF IsOk(p.result) /\ ~cli.dry_run THEN "import_request" ELSE "returned"
    /\ ret' = IF IsErr(p.result) THEN p.result
              ELSE IF cli.dry_run THEN Ok(<<>>) ELSE ret
    /\ locals' = IF IsOk(p.result) /\ ~cli.dry_run THEN p.result[2] ELSE locals
    /\ stdout' = stdout \o p.stdout
                 \o (IF IsOk(p.result) /\ cli.dry_run
                     THEN << <<"dry_run">>, <<"lines_ready", Len(lines(p.result[2]))>> >>
                     ELSE <<>>)

\* ImportCommand::execute up to the import request: the file is read and
\* prepared, and a dry run ends here
ImportPrepare ==
    /\ pc = "execute"
    /\ cli.cmd = "import"
    /\ UNCHANGED <<cli, world, files, exit_code>>
    /\ IF world.file = "missing"
       THEN /\ Return(Err("FileNotFound", "file"), <<>>, <<>>)
       ELSE IF world.file = "unreadable"
       THEN /\ Return(Err("IoError", "read"), <<>>, <<>>)
       ELSE ImportPrepared(prepare_data(cli.format, world.content, cli.skip_errors))

\* ImportCommand::execute from client.import(&import_data) on
ImportRequest ==
    /\ pc = "import_request"
    /\ \E outcome \in Outcomes :
         Return(IF outcome = "ok" THEN Ok(<<>>) ELSE RequestError(outcome),
                <<Request("import", locals, outcome, <<>>)>>,
                IF outcome = "ok" THEN << <<"imported">> >> ELSE <<>>)

-----------------------------------------------------------------------------
(* export.                                                                 *)

\* ExportCommand::execute once determine_time_range has returned window
ExportWindow(window) ==
    IF IsErr(window)
    THEN Return(window, <<>>, <<>>)
    ELSE Step("export_request", <<>>, <<>>, window[2])

\* ExportCommand::execute up to the export request
ExportPrepare ==
    /\ pc = "execute"
    /\ cli.cmd = "export"
    /\ ExportWindow(determine_time_range(cli, world.now))

\* ExportCommand::execute from the formatted data on: it is written to the
\* file of --output (which may fail) or printed
ExportOutput(req, formatted_data) ==
    /\ pc' = "returned"
    /\ requests' = Append(requests, req)
    /\ ret' = IF cli.output = Some("denied") THEN Err("IoError", "create")
              ELSE Ok(<<>>)
    /\ files' = IF cli.output \in {None, Some("denied")} THEN files
                ELSE Append(files, <<cli.output[1], formatted_data>>)
    /\ stdout' = IF cli.output = None THEN Append(stdout, <<"data", formatted_data>>)
                 ELSE IF cli.output = Some("denied") THEN stdout
                 ELSE Append(stdout, <<"saved", cli.output[1]>>)
    /\ UNCHANGED <<cli, world, stderr, exit_code, locals, line_count, error_count>>

\* ExportCommand::execute from client.export(..) on: the response body is
\* formatted and written to the output file or printed
ExportRequest ==
    /\ pc = "export_request"
    /\ \/ \E outcome \in Outcomes \ {"ok"} :
            Return(RequestError(outcome),
                   <<Request("export", locals, outcome, <<>>)>>, <<>>)
       \/ ExportOutput(Request("export", locals, "ok", world.answer),
                       format_data(cli.format, world.answer))

-----------------------------------------------------------------------------
(* query.                                                                  *)

\* .map_err(|e| VmCliError::InvalidQuery(e))
map_query_err(r) == IF IsOk(r) THEN r ELSE Err("InvalidQuery", r[3])

\* the orders a HashMap may iterate its keys in
Iterations(m) ==
    { o \in [1..Cardinality(DOMAIN m) -> DOMAIN m] :
        \A i, j \in DOMAIN o : i # j => o[i] # o[j] }

RECURSIVE label_lines(_, _)
\* the lines --metrics-only prints for one result whose map iterates in
\* the order keys: key=value for every key but __name__
label_lines(metric, keys) ==
    IF keys = <<>> THEN <<>>
    ELSE (IF Head(keys) # NAME_KEY
          THEN << <<"line", Head(keys) \o <<"=">> \o metric[Head(keys)]>> >>
          ELSE <<>>)
         \o label_lines(metric, Tail(keys))

RECURSIVE metrics_only_lines(_, _)
\* the lines --metrics-only prints, orders[i] being the order the map of
\* the i-th result iterates in
metrics_only_lines(result, orders) ==
    IF result = <<>> THEN <<>>
    ELSE label_lines(Head(result).metric, Head(orders))
         \o metrics_only_lines(Tail(result), Tail(orders))

\* the iteration orders of the maps of a result array
IterationChoices(result) ==
    { orders \in [1..Len(result) -> UNION { Iterations(mt) : mt \in ResultMetrics }] :
        \A i \in 1..Len(result) : orders[i] \in Iterations(result[i].metric) }

T_timestamp == <<"t", "i", "m", "e", "s", "t", "a", "m", "p">>

RECURSIVE format_label_pieces(_, _)
\* the vector format_labels joins: format!("{}={}", key, value) for every
\* entry of the map, iterated in the order keys
format_label_pieces(labels, keys) ==
    IF keys = <<>> THEN <<>>
    ELSE <<Head(keys) \o <<"=">> \o labels[Head(keys)]>>
         \o format_label_pieces(labels, Tail(keys))

\* format_labels: formatted.join(", ")
format_labels(labels, keys) ==
    Join(format_label_pieces(labels, keys), <<",", " ">>)

\* the MetricRow format_table pushes for a result with a value
MetricRow(sample, labels) ==
    [timestamp |-> display_f64(sample[1]), value |-> sample[2], labels |-> labels]

RECURSIVE table_rows_every_result(_, _)
\* the loop of format_table with a row pushed for every result
table_rows_every_result(result, orders) ==
    IF result = <<>> THEN <<>>
    ELSE << MetricRow(IF IsSome(Head(result).value) THEN Head(result).value[1]
                      ELSE <<F64Zero, <<>>>>,
                      format_labels(Head(result).metric, Head(orders))) >>
         \o table_rows_every_result(Tail(result), Tail(orders))

RECURSIVE table_rows(_, _)
\* the loop of format_table: a row for every result whose value is Some,
\* orders[i] being the order the map of the i-th result iterates in
table_rows(result, orders) ==
    IF result = <<>> THEN <<>>
    ELSE (IF IsSome(Head(result).value)
          THEN << MetricRow(Head(result).value[1],
                            format_labels(Head(result).metric, Head(orders))) >>
          ELSE <<>>)
         \o table_rows(Tail(result), Tail(orders))

\* format_table from the rows on: the placeholder text if there is no row,
\* else the table tabled renders of the rows
table_of(rows) == IF rows = <<>> THEN <<"placeholder">> ELSE <<"table", rows>>

\* utils.rs format_table
format_table(result, orders) == table_of(table_rows(result, orders))

\* the label fields of a row of format_csv:
\* result.metric.get(header).unwrap_or(&"".to_string()) for every header
\* after the first two
csv_label_fields(metric, label_headers) ==
    [i \in 1..Len(label_headers) |->
        IF label_headers[i] \in DOMAIN metric THEN metric[label_headers[i]]
        ELSE <<>>]

\* a row of format_csv: row.join(",") and the newline
csv_row(sample, metric, label_headers) ==
    Join(<<display_f64(sample[1]), sample[2]>>
             \o csv_label_fields(metric, label_headers), <<",">>) \o NL

RECURSIVE csv_rows(_, _)
\* the loop of format_csv over the results: a row for every result whose
\* value is Some
csv_rows(result, label_headers) ==
    IF result = <<>> THEN <<>>
    ELSE (IF IsSome(Head(result).value)
          THEN csv_row(Head(result).value[1], Head(result).metric, label_headers)
          ELSE <<>>)
         \o csv_rows(Tail(result), label_headers)

\* utils.rs format_csv: nothing for an empty result array, else the header
\* with the keys of the map of the first result, in the order it iterates
\* in, and the rows
format_csv(result, orders) ==
    IF result = <<>> THEN <<>>
    ELSE Join(<<T_timestamp, T_value>> \o orders[1], <<",">>) \o NL
         \o csv_rows(result, orders[1])

\* utils.rs format_output; the JSON and the YAML text are kept as the
\* data they serialise
format_output(data, format, orders) ==
    CASE format = "json" -> <<"json", data>>
      [] format = "table" -> format_table(data, orders)
      [] format = "csv" -> <<"text", format_csv(data, orders)>>
      [] format = "yaml" -> <<"yaml", data>>

\* what QueryCommand::execute prints for a response
query_printed(c, result, orders) ==
    IF c.count THEN << <<"count", Len(result)>> >>
    ELSE IF c.metrics_only THEN metrics_only_lines(result, orders)
    ELSE << <<"output", format_output(result, c.format, orders)>> >>
         \o (IF c.format = "table" THEN << <<"found", Len(result)>> >> ELSE <<>>)

\* QueryCommand::execute with the Result of the validator dropped
QueryChecked_unvalidated(validated_query, window) ==
    IF IsErr(window) THEN Return(window, <<>>, <<>>)
    ELSE Step("query_request", <<>>, <<>>, window[2])

\* QueryCommand::execute once the query is validated and the range parsed
QueryChecked(validated_query, window) ==
    IF IsErr(validated_query) THEN Return(validated_query, <<>>, <<>>)
    ELSE IF IsErr(window) THEN Return(window, <<>>, <<>>)
    ELSE Step("query_request", <<>>, <<>>, window[2])

\* QueryCommand::execute up to its request: the query is validated and the
\* range of --range parsed
QueryPrepare ==
    /\ pc = "execute"
    /\ cli.cmd = "query"
    /\ QueryChecked(map_query_err(validate_promql_query(cli.query)),
                    IF IsSome(cli.range)
                    THEN map_time_err(parse_time_range(cli.range[1], world.now))
                    ELSE Ok(<<>>))

\* QueryCommand::execute from its request on: query_range with --range and
\* query without, then the response is printed
QueryRequest ==
    /\ pc = "query_request"
    /\ \/ \E outcome \in Outcomes \ {"ok"} :
            Return(RequestError(outcome),
                   <<Request(IF IsSome(cli.range) THEN "query_range" ELSE "query",
                             <<cli.query, locals>>, outcome, <<>>)>>,
                   <<>>)
       \/ \E orders \in IterationChoices(world.answer) :
            Return(Ok(<<>>),
                   <<Request(IF IsSome(cli.range) THEN "query_range" ELSE "query",
                             <<cli.query, locals>>, "ok", world.answer)>>,
                   query_printed(cli, world.answer, orders))

-----------------------------------------------------------------------------
(* health.                                                                 *)

\* the indicator line chosen by health.status.to_lowercase()
indicator(status) ==
    CASE Lower(status) \in { <<"o", "k">>, <<"h", "e", "a", "l", "t", "h", "y">> }
           -> <<"works_normally">>
      [] Lower(status) \in { <<"e", "r", "r", "o", "r">>,
                             <<"u", "n", "h", "e", "a", "l", "t", "h", "y">> }
           -> <<"has_problems">>
      [] OTHER -> <<"status_undefined">>

\* HealthCommand::execute with a 2xx answer of /health whose trimmed body
\* is status: --status-only prints it and returns, --verbose goes on to the
\* additional checks, and otherwise the indicator ends the command
HealthAnswered(req, status) ==
    IF cli.status_only
    THEN Return(Ok(<<>>), <<req>>, << <<"line", status>> >>)
    ELSE IF cli.verbose
    THEN Step("health_api", <<req>>, << <<"status", status>> >>, status)
    ELSE Return(Ok(<<>>), <<req>>, << <<"status", status>>, indicator(status) >>)

\* HealthCommand::execute up to the end of client.health()
HealthRequest ==
    /\ pc = "execute"
    /\ cli.cmd = "health"
    /\ \/ \E outcome \in Outcomes \ {"ok"} :
            Return(RequestError(outcome),
                   <<Request("health", <<>>, outcome, <<>>)>>, <<>>)
       \/ HealthAnswered(Request("health", <<>>, "ok", world.answer),
                         trim(world.answer))

\* check_additional_health: the API check, whose error is printed
HealthApiCheck ==
    /\ pc = "health_api"
    /\ \E outcome \in Outcomes :
         Step("health_metrics",
              <<Request("query", <<Q_up, None>>, outcome, <<>>)>>,
              MatchPrinted(outcome, << <<"api_available">> >>, "api"),
              locals)

\* check_additional_health: the metrics check, whose error is printed; the
\* check returns Ok and execute ends with the indicator
HealthMetricsCheck ==
    /\ pc = "health_metrics"
    /\ \E outcome \in Outcomes, list \in MetricsLists :
         /\ outcome # "ok" => list = <<>>
         /\ Return(Ok(<<>>),
                   <<Request("metrics", <<>>, outcome, list)>>,
                   MatchPrinted(outcome, << <<"metrics", Len(list)>> >>, "metrics")
                   \o <<indicator(locals)>>)

-----------------------------------------------------------------------------
(* admin.                                                                  *)

\* delete_metrics with the request sent whether or not --confirm is given
AdminDelete_unconfirmed ==
    /\ pc = "execute"
    /\ cli.cmd = "admin" /\ cli.sub = "delete"
    /\ \E outcome \in Outcomes :
         Return(IF outcome = "ok" THEN Ok(<<>>) ELSE RequestError(outcome),
                <<Request("delete_series", <<cli.start, cli.end>>, outcome, <<>>)>>,
                << <<"deleting">> >>
                \o (IF outcome = "ok" THEN << <<"deleted">> >> ELSE <<>>))

\* delete_metrics: without --confirm the warning is printed and no request
\* is sent; with it the error of delete_series is returned
AdminDelete ==
    /\ pc = "execute"
    /\ cli.cmd = "admin" /\ cli.sub = "delete"
    /\ IF ~cli.confirm
       THEN Return(Ok(<<>>), <<>>,
                   << <<"irreversible">>, <<"will_be_deleted">> >>
                   \o (IF IsSome(cli.start) THEN << <<"start", cli.start[1]>> >> ELSE <<>>)
                   \o (IF IsSome(cli.end) THEN << <<"end", cli.end[1]>> >> ELSE <<>>)
                   \o << <<"use_confirm">> >>)
       ELSE \E outcome \in Outcomes :
              Return(IF outcome = "ok" THEN Ok(<<>>) ELSE RequestError(outcome),
                     <<Request("delete_series", <<cli.start, cli.end>>, outcome, <<>>)>>,
                     << <<"deleting">> >>
                     \o (IF outcome = "ok" THEN << <<"deleted">> >> ELSE <<>>))

\* manage_retention: --show, --set and --check send one request each and
\* print its error; the function returns Ok(()) on every path
AdminRetention ==
    /\ pc = "execute"
    /\ cli.cmd = "admin" /\ cli.sub = "retention"
    /\ IF cli.show
       THEN \E outcome \in Outcomes :
              Return(Ok(<<>>),
                     <<Request("get_retention_info", <<>>, outcome, <<>>)>>,
                     << <<"retention_info">> >>
                     \o MatchPrinted(outcome, << <<"retention">> >>, "retention_info"))
       ELSE IF IsSome(cli.set)
       THEN \E outcome \in Outcomes :
              Return(Ok(<<>>),
                     <<Request("set_retention", cli.set[1], outcome, <<>>)>>,
                     << <<"setting", cli.set[1]>> >>
                     \o MatchPrinted(outcome, << <<"retention_updated">> >>,
                                     "set_retention"))
       ELSE IF cli.check
       THEN \E outcome \in Outcomes :
              Return(Ok(<<>>),
                     <<Request("get_retention_info", <<>>, outcome, <<>>)>>,
                     << <<"retention_analysis">> >>
                     \o MatchPrinted(outcome, <<>>, "retention_analysis"))
       ELSE Return(Ok(<<>>), <<>>, << <<"use_show_set_check">> >>)

\* the snapshot method manage_snapshots calls and its argument
snapshot_call(c) ==
    IF c.list THEN <<"list_snapshots", <<>>>>
    ELSE IF IsSome(c.name) THEN <<"create_snapshot", c.name[1]>>
    ELSE IF IsSome(c.restore) THEN <<"restore_snapshot", c.restore[1]>>
    ELSE IF IsSome(c.delete) THEN <<"delete_snapshot", c.delete[1]>>
    ELSE <<"none", <<>>>>

\* the snapshot methods of the client send no request when the cluster
\* section has no vmstorage_host: they return an ApiError at once
snapshot_unconfigured(cluster) ==
    IsSome(cluster) /\ ~IsSome(cluster[1].vmstorage_host)

\* manage_snapshots: --list, --name, --restore and --delete call one
\* snapshot method each and print its error; the function returns Ok(())
\* on every path
AdminSnapshot ==
    /\ pc = "execute"
    /\ cli.cmd = "admin" /\ cli.sub = "snapshot"
    /\ IF snapshot_call(cli)[1] = "none"
       THEN Return(Ok(<<>>), <<>>, << <<"use_list_name_restore_delete">> >>)
       ELSE IF snapshot_unconfigured(world.cluster)
       THEN Return(Ok(<<>>), <<>>,
                   << <<"heading", snapshot_call(cli)[1]>>,
                      <<"error_printed", snapshot_call(cli)[1],
                        Err("ApiError", "vmstorage_host")>> >>)
       ELSE \E outcome \in Outcomes :
              Return(Ok(<<>>),
                     <<Request(snapshot_call(cli)[1], snapshot_call(cli)[2],
                               outcome, <<>>)>>,
                     << <<"heading", snapshot_call(cli)[1]>> >>
                     \o MatchPrinted(outcome, << <<"done", snapshot_call(cli)[1]>> >>,
                                     snapshot_call(cli)[1]))

\* manage_mode: --show asks for the flags (and goes on to the build
\* information), the other options only print a hint
AdminMode ==
    /\ pc = "execute"
    /\ cli.cmd = "admin" /\ cli.sub = "mode"
    /\ IF cli.show
       THEN \E outcome \in Outcomes :
              Step("mode_build_info",
                   <<Request("get_flags", <<>>, outcome, <<>>)>>,
                   << <<"about">>, <<"flags">> >>
                   \o MatchPrinted(outcome, << <<"flags_listed">> >>, "flags"),
                   locals)
       ELSE Return(Ok(<<>>), <<>>,
                   IF cli.readonly THEN << <<"readonly_hint">> >>
                   ELSE IF cli.maintenance THEN << <<"maintenance_hint">> >>
                   ELSE << <<"use_show_readonly_maintenance">> >>)

\* manage_mode --show from the build information on: its error is printed
\* and the function returns Ok(())
AdminModeBuildInfo ==
    /\ pc = "mode_build_info"
    /\ \E outcome \in Outcomes :
         Return(Ok(<<>>),
                <<Request("get_build_info", <<>>, outcome, <<>>)>>,
                << <<"build_info">> >>
                \o MatchPrinted(outcome, << <<"build_listed">> >>, "build_info"))

-----------------------------------------------------------------------------
(* debug.                                                                  *)

\* analyze_slow_queries: the error of the request is printed and the
\* function returns Ok(())
DebugSlowQueries ==
    /\ pc = "execute"
    /\ cli.cmd = "debug" /\ cli.sub = "slow_queries"
    /\ \E outcome \in Outcomes :
         Return(Ok(<<>>),
                <<Request("get_slow_queries", <<>>, outcome, <<>>)>>,
                << <<"slow_queries">> >>
                \o MatchPrinted(outcome, << <<"slow_listed">> >>, "slow_queries"))

\* find_data_gaps up to the end of the count query, whose error is
\* returned; an empty result ends the command
DebugGaps ==
    /\ pc = "execute"
    /\ cli.cmd = "debug" /\ cli.sub = "gaps"
    /\ \/ \E outcome \in Outcomes \ {"ok"} :
            Return(RequestError(outcome),
                   <<Request("query", <<"count", None>>, outcome, <<>>)>>,
                   << <<"gap_search">> >>)
       \/ /\ world.answer = <<>>
          /\ Return(Ok(<<>>), <<Request("query", <<"count", None>>, "ok", <<>>)>>,
                    << <<"gap_search">>, <<"metric_not_found">> >>)
       \/ /\ world.answer # <<>>
          /\ Step("gaps_range",
                  <<Request("query", <<"count", None>>, "ok", world.answer)>>,
                  << <<"gap_search">>, <<"gap_table">> >>, locals)

\* find_data_gaps from the range query on: its error is printed and the
\* function returns Ok(())
DebugGapsRange ==
    /\ pc = "gaps_range"
    /\ \E outcome \in Outcomes :
         Return(Ok(<<>>),
                <<Request("query_range",
                          <<"metric", <<i64_to_string(world.now - 86400),
                                        i64_to_string(world.now)>>>>,
                          outcome, <<>>)>>,
                MatchPrinted(outcome, << <<"gaps_listed">> >>, "gaps"))

\* analyze_memory_usage: the error of the request is printed and the
\* function returns Ok(())
DebugMemory ==
    /\ pc = "execute"
    /\ cli.cmd = "debug" /\ cli.sub = "memory"
    /\ \E outcome \in Outcomes :
         Return(Ok(<<>>),
                <<Request("get_metrics_info", <<>>, outcome, <<>>)>>,
                << <<"memory_usage">> >>
                \o MatchPrinted(outcome, << <<"memory_listed", cli.verbose>> >>,
                                "memory"))

\* test_performance up to its loop: i is the next iteration, times the
\* number of iterations that succeeded
DebugPerformance ==
    /\ pc = "execute"
    /\ cli.cmd = "debug" /\ cli.sub = "performance"
    /\ Step("performance_loop", <<>>, << <<"performance", cli.count>> >>,
            [i |-> 1, times |-> 0])

\* one iteration of the loop of test_performance: the error of the query
\* is printed and the loop goes on
DebugPerformanceIteration ==
    /\ pc = "performance_loop"
    /\ locals.i <= cli.count
    /\ \E outcome \in Outcomes :
         Step("performance_loop",
              <<Request("query", <<Q_up, None>>, outcome, <<>>)>>,
              << <<"iteration", locals.i, outcome = "ok">> >>,
              [i |-> locals.i + 1,
               times |-> locals.times + (IF outcome = "ok" THEN 1 ELSE 0)])

\* test_performance after its loop: the summary is printed when an
\* iteration succeeded and the function returns Ok(())
DebugPerformanceDone ==
    /\ pc = "performance_loop"
    /\ locals.i > cli.count
    /\ Return(Ok(<<>>), <<>>,
              IF locals.times > 0 THEN << <<"results", locals.times>> >> ELSE <<>>)

\* the names analyze_metrics lists: those that contain the pattern
matching(list, pattern) == SelectSeq(list, LAMBDA mn : contains(mn, pattern))

\* what analyze_metrics prints for the list of metric names
metrics_printed(c, list) ==
    IF IsSome(c.pattern)
    THEN << <<"matching", Len(matching(list, c.pattern[1]))>> >>
    ELSE IF c.stats THEN << <<"statistics", Len(list)>> >>
    ELSE << <<"total", Len(list)>> >>

\* analyze_metrics from the list of metric names on: it is printed, and
\* written to the file of --export (which may fail)
MetricsListed(req, list) ==
    /\ pc' = "returned"
    /\ requests' = Append(requests, req)
    /\ ret' = IF cli.export = Some("denied") THEN Err("IoError", "write")
              ELSE Ok(<<>>)
    /\ files' = IF cli.export \in {None, Some("denied")} THEN files
                ELSE Append(files, <<cli.export[1], Join(list, NL)>>)
    /\ stdout' = stdout \o << <<"metrics_analysis">> >> \o metrics_printed(cli, list)
                 \o (IF cli.export \in {None, Some("denied")} THEN <<>>
                     ELSE << <<"exported", cli.export[1]>> >>)
    /\ UNCHANGED <<cli, world, stderr, exit_code, locals, line_count, error_count>>

\* analyze_metrics: the error of the metrics request is returned
DebugMetrics ==
    /\ pc = "execute"
    /\ cli.cmd = "debug" /\ cli.sub = "metrics"
    /\ \/ \E outcome \in Outcomes \ {"ok"} :
            Return(RequestError(outcome),
                   <<Request("metrics", <<>>, outcome, <<>>)>>,
                   << <<"metrics_analysis">> >>)
       \/ MetricsListed(Request("metrics", <<>>, "ok", world.answer), world.answer)

-----------------------------------------------------------------------------
(* main.                                                                   *)

\* main, from the Result of execute on: an error is reported on stderr with
\* the marker and returned from main, which exits with code 1
MainExit ==
    /\ pc = "returned"
    /\ pc' = "exited"
    /\ exit_code' = IF IsOk(ret) THEN 0 ELSE 1
    /\ stderr' = IF IsOk(ret) THEN stderr
                 ELSE stderr \o << <<"ERROR_MARKER", ret>>, <<"Error", ret>> >>
    /\ UNCHANGED <<cli, world, requests, files, stdout, ret, locals, line_count,
                   error_count>>

Next ==
    \/ ImportPrepare
    \/ ImportRequest
    \/ ExportPrepare
    \/ ExportRequest
    \/ QueryPrepare
    \/ QueryRequest
    \/ HealthRequest
    \/ HealthApiCheck
    \/ HealthMetricsCheck
    \/ AdminDelete
    \/ AdminRetention
    \/ AdminSnapshot
    \/ AdminMode
    \/ AdminModeBuildInfo
    \/ DebugSlowQueries
    \/ DebugGaps
    \/ DebugGapsRange
    \/ DebugMemory
    \/ DebugPerformance
    \/ DebugPerformanceIteration
    \/ DebugPerformanceDone
    \/ DebugMetrics
    \/ MainExit

Spec == Init /\ [][Next]_vars

-----------------------------------------------------------------------------
(* Readings of the inputs that the properties are stated with.             *)

\* the space-separated tokens of a line
Tokens(line) == split(line, " ")

\* a name with an optional label block that is closed
WellFormedName(t) ==
    /\ t # <<>>
    /\ ~starts_with(t, "{")
    /\ contains_char(t, "{") => t[Len(t)] = "}"
    /\ contains_char(t, "}") => contains_char(t, "{")

\* a line of the shape `name[{labels}] value timestamp`
IsSampleLine(line) ==
    /\ ~starts_with(line, "#")
    /\ Len(Tokens(line)) = 3
    /\ WellFormedName(Tokens(line)[1])
    /\ parses_f64(Tokens(line)[2])
    /\ parses_f64(Tokens(line)[3])

\* a line the exposition format admits: a sample line, or `name[{labels}] value`
IsWellFormedLine(line) ==
    \/ IsSampleLine(line)
    \/ /\ ~starts_with(line, "#")
       /\ Len(Tokens(line)) = 2
       /\ WellFormedName(Tokens(line)[1])
       /\ parses_f64(Tokens(line)[2])

\* a non-comment, non-blank line that is not well formed
IsMalformedLine(raw) ==
    /\ trim(raw) # <<>>
    /\ ~starts_with(trim(raw), "#")
    /\ ~IsWellFormedLine(trim(raw))

\* the sample lines among ls, in order
SampleLines(ls) == SelectSeq(ls, IsSampleLine)

\* the name of a sample line: its first token up to the label block
SampleName(line) ==
    IF contains_char(Tokens(line)[1], "{")
    THEN Before(Tokens(line)[1], FirstIndex(Tokens(line)[1], "{"))
    ELSE Tokens(line)[1]

\* the text between the braces of a first token with a label block
LabelBlock(t) == SubSeq(t, FirstIndex(t, "{") + 1, Len(t) - 1)

RECURSIVE LabelsOf(_, _)
\* m with the key="value" pieces added
LabelsOf(pieces, m) ==
    IF pieces = <<>> THEN m
    ELSE IF ~contains_char(Head(pieces), "=") THEN LabelsOf(Tail(pieces), m)
    ELSE LabelsOf(Tail(pieces),
                  Insert(m, Before(Head(pieces), FirstIndex(Head(pieces), "=")),
                         trim_matches(After(Head(pieces), FirstIndex(Head(pieces), "=")),
                                      "\"")))

\* {__name__: name, ...labels} of a sample line
SampleMetric(line) ==
    IF contains_char(Tokens(line)[1], "{")
    THEN LabelsOf(split(LabelBlock(Tokens(line)[1]), ","),
                  Insert(EmptyMap, NAME_KEY, SampleName(line)))
    ELSE Insert(EmptyMap, NAME_KEY, SampleName(line))

\* the object {metric: {..}, value: [timestamp, value]} of a sample line
SampleObject(line) ==
    [metric |-> SampleMetric(line),
     value  |-> <<parse_f64(Tokens(line)[3])[1], parse_f64(Tokens(line)[2])[1]>>]

\* the row timestamp,value,metric_name of a sample line
SampleRow(line) ==
    Tokens(line)[3] \o <<",">> \o Tokens(line)[2] \o <<",">> \o SampleName(line)

\* f applied to every element of ls
MapSeq(ls, f(_)) == [i \in 1..Len(ls) |-> f(ls[i])]

\* the number of elements of ls that satisfy test
CountOf(ls, test(_)) == Len(SelectSeq(ls, test))

\* an export that ended well in the given format
ExportDone(format) ==
    /\ cli.cmd = "export"
    /\ cli.format = format
    /\ pc \in {"returned", "exited"}
    /\ IsOk(ret)

\* the body the export request was answered with
ExportedBody == requests[1].response

\* the formatted data such an export printed or wrote to its file
ExportedData ==
    IF cli.output = None THEN stdout[Len(stdout)][2] ELSE files[Len(files)][2]

\* an import of a readable file in the given format, past prepare_data
ImportPrepareDone(format) ==
    /\ cli.cmd = "import"
    /\ cli.format = format
    /\ world.file = "ok"
    /\ pc # "execute"

\* prepare_data returned an error
PrepareFailed == IsErr(ret) /\ requests = <<>>

\* the warnings on stderr
Warnings == SelectSeq(stderr, LAMBDA e : e[1] = "warning")

-----------------------------------------------------------------------------
(* Properties.                                                             *)

\* C1: an export in JSON format emits one object per sample line of the
\* body, {metric: {__name__, ...labels}, value: [timestamp, value]}, in
\* the order of the lines, and nothing for the other lines.
C1_OneObjectPerSample ==
    ExportDone("json") =>
        ExportedData.json = MapSeq(SampleLines(lines(ExportedBody)), SampleObject)

\* C2: an export in CSV format emits the header timestamp,value,metric_name
\* and then one row per sample line of the body, in the order of the
\* lines, the third column being the name without its label block.
C2_HeaderAndOneRowPerSample ==
    ExportDone("csv") =>
        lines(ExportedData.text)
            = <<CSV_HEADER>> \o MapSeq(SampleLines(lines(ExportedBody)), SampleRow)

\* the JSON value serde_json reads back from an exported entry, the
\* members of its metric in the order keys
EntryValue(entry, keys) ==
    JsonItem(JObj([i \in 1..Len(keys) |-> <<keys[i], JStr(entry.metric[keys[i]])>>]),
             JArr(<<JNum(entry.value[1]), JNum(entry.value[2])>>))

\* the document read back from the exported array
ExportedDocument ==
    Some(JArr([i \in 1..Len(ExportedData.json) |->
                 EntryValue(ExportedData.json[i],
                            CHOOSE keys \in Iterations(ExportedData.json[i].metric) : TRUE)]))

\* the line out carries the name, the labels and the value of the sample
\* line l, and its timestamp truncated to an integer
SameSample(out, l) ==
    /\ IsSampleLine(out)
    /\ SampleMetric(out) = SampleMetric(l)
    /\ parse_f64(Tokens(out)[2]) = parse_f64(Tokens(l)[2])
    /\ Tokens(out)[3] = display_as_i64(parse_f64(Tokens(l)[3])[1])

\* the lines outs are the sample lines ls, one for one
SameSamples(outs, ls) ==
    /\ Len(outs) = Len(ls)
    /\ \A i \in 1..Len(ls) : SameSample(outs[i], ls[i])

\* C3: the exported JSON array, converted back by the JSON import
\* converter, gives for every sample line of the body a line with the
\* same name, labels and value and the timestamp truncated.
C3_RoundTrip ==
    ExportDone("json") =>
        /\ IsOk(convert_json_to_prometheus(ExportedDocument))
        /\ SameSamples(lines(convert_json_to_prometheus(ExportedDocument)[2]),
                       SampleLines(lines(ExportedBody)))

\* every numeric token after the name of a line of two or three tokens
\* parses as a float
NumericTokensParse(line) ==
    /\ Len(Tokens(line)) = 3 => parses_f64(Tokens(line)[2]) /\ parses_f64(Tokens(line)[3])
    /\ Len(Tokens(line)) = 2 => parses_f64(Tokens(line)[2])

\* C4: the validator classifies a line as valid only if its value token
\* and, when there is one, its timestamp token parse as floats: a strict
\* validation that found no error has seen only such lines.
C4_ValidOnlyIfNumericTokensParse ==
    (ImportPrepareDone("prometheus") /\ ~cli.skip_errors /\ error_count = 0) =>
        \A i \in 1..Len(lines(world.content)) :
            LET line == trim(lines(world.content)[i])
            IN  (line # <<>> /\ ~starts_with(line, "#")) => NumericTokensParse(line)

\* a request failed, or a call of the client failed before its request
SomethingFailed ==
    \/ \E i \in 1..Len(requests) : requests[i].outcome # "ok"
    \/ \E i \in 1..Len(stdout) : stdout[i][1] = "error_printed"
    \/ IsErr(ret)

\* C5: every error of a request or step is returned to main, printed on
\* stderr with the marker and makes the exit code non-zero; the exit code
\* is 0 only when nothing failed.
C5_EveryErrorSurfaces ==
    pc = "exited" =>
        /\ SomethingFailed =>
              /\ IsErr(ret)
              /\ exit_code # 0
              /\ \E i \in 1..Len(stderr) : stderr[i] = <<"ERROR_MARKER", ret>>
        /\ exit_code = 0 => ~SomethingFailed

\* the index of the first malformed line of ls
FirstMalformed(ls) ==
    CHOOSE k \in 1..Len(ls) :
        IsMalformedLine(ls[k]) /\ \A j \in 1..(k - 1) : ~IsMalformedLine(ls[j])

\* C6: a strict import in Prometheus format of a file with a malformed
\* line fails at the first such line, with its 1-based number and its
\* content; no later line is examined and no request is sent.
C6_StrictAbortsAtFirstMalformed ==
    (/\ ImportPrepareDone("prometheus")
     /\ ~cli.skip_errors
     /\ \E k \in 1..Len(lines(world.content)) : IsMalformedLine(lines(world.content)[k]))
    => LET ls == lines(world.content)
       IN  /\ ret = Err("InvalidQuery",
                        [line_number |-> FirstMalformed(ls),
                         content |-> trim(ls[FirstMalformed(ls)])])
           /\ line_count = FirstMalformed(ls)
           /\ requests = <<>>

RECURSIVE MalformedWarnings(_, _)
\* one warning per malformed line of ls, k being the number of the first
MalformedWarnings(ls, k) ==
    IF ls = <<>> THEN <<>>
    ELSE (IF IsMalformedLine(Head(ls)) THEN << <<"warning", k, trim(Head(ls))>> >>
          ELSE <<>>)
         \o MalformedWarnings(Tail(ls), k + 1)

\* C7: a lenient import in Prometheus format never fails in validation:
\* every line is examined, stderr gets exactly one warning per malformed
\* line, and the count of errors is the number of malformed lines.
C7_LenientWarnsPerMalformed ==
    (ImportPrepareDone("prometheus") /\ cli.skip_errors) =>
        /\ ~PrepareFailed
        /\ line_count = Len(lines(world.content))
        /\ Warnings = MalformedWarnings(lines(world.content), 1)
        /\ error_count = CountOf(lines(world.content), IsMalformedLine)

\* a JSON item with a metric object and a value array of two numbers
IsGoodJsonItem(item) ==
    /\ IsSome(json_get(item, T_metric))
    /\ IsSome(json_get(item, T_value))
    /\ json_get(item, T_metric)[1][1] = "obj"
    /\ json_get(item, T_value)[1][1] = "arr"
    /\ Len(json_get(item, T_value)[1][2]) = 2
    /\ \A i \in 1..2 : json_get(item, T_value)[1][2][i][1] = "num"

IsBadJsonItem(item) == ~IsGoodJsonItem(item)

\* a CSV record with fewer than three fields or a non-numeric timestamp
\* or value
IsBadCsvRecord(record) ==
    \/ Len(record) < 3
    \/ ~parses_f64(record[1])
    \/ ~parses_f64(record[2])

\* the number of bad records of the JSON or CSV document of the import
BadRecords ==
    IF cli.format = "json"
    THEN (IF IsSome(world.content) /\ world.content[1][1] = "arr"
          THEN CountOf(world.content[1][2], IsBadJsonItem) ELSE 0)
    ELSE (IF world.content = <<>> THEN 0
          ELSE CountOf(Tail(world.content), IsBadCsvRecord))

\* C8: an import in JSON or CSV format of a document with a bad record
\* fails in strict mode, and in lenient mode counts the bad records and
\* warns about each.
C8_BadRecordsHandledByMode ==
    (/\ cli.cmd = "import"
     /\ cli.format \in {"json", "csv"}
     /\ world.file = "ok"
     /\ pc # "execute"
     /\ BadRecords > 0)
    => IF cli.skip_errors
       THEN error_count = BadRecords /\ Len(Warnings) = BadRecords
       ELSE PrepareFailed

\* the execute of query returned the error of the validator
QueryRejected == IsErr(ret) /\ ret[2] = "InvalidQuery"

\* a query command past the validation
QueryValidated == cli.cmd = "query" /\ pc # "execute"

\* valid PromQL expressions: a bare range selector, calls of functions
\* outside the list of the validator, and a name with a colon
ValidExpressions ==
    { <<"m", "[", "5", "m", "]">>,
      <<"v", "e", "c", "t", "o", "r", "(", "1", ")">>,
      <<"a", "b", "s", "(", "m", ")">>,
      <<"m", ":", "m">>,
      Q_up, Q_rate }

\* C9: the validator never rejects a valid PromQL expression.
C9_NeverRejectsValid ==
    (QueryValidated /\ cli.query \in ValidExpressions) => ~QueryRejected

OperatorStrings ==
    { <<"+">>, <<"-">>, <<"*">>, <<"/">>, <<"%">>, <<"=", "=">>, <<"!", "=">>,
      <<">">>, <<"<">>, <<">", "=">>, <<"<", "=">> }

FunctionNames ==
    { <<"s", "u", "m">>, <<"a", "v", "g">>, <<"c", "o", "u", "n", "t">>,
      <<"m", "i", "n">>, <<"m", "a", "x">>, <<"r", "a", "t", "e">>,
      <<"i", "n", "c", "r", "e", "a", "s", "e">> }

\* one of the four conditions of acceptance holds for the query q
Acceptable(q) ==
    \/ \E op \in OperatorStrings : contains(q, op)
    \/ \E f \in FunctionNames : contains(q, f)
    \/ contains_char(q, "{")
    \/ \A i \in 1..Len(q) :
          \/ is_alphanumeric(q[i])
          \/ q[i] \in {"_", "{", "}", "=", "\"", ",", " "}

\* C10: a query whose trimmed text is not empty passes the validator
\* exactly when it contains an operator string, a function name as a
\* substring or a `{`, or consists of simple characters only.
C10_AcceptedIffAcceptable ==
    (QueryValidated /\ trim(cli.query) # <<>>) =>
        (~QueryRejected <=> Acceptable(cli.query))

\* C10: the rate over a range selector passed the validator and waits for
\* its request.
C10_Witness ==
    /\ cli.cmd = "query"
    /\ cli.query = Q_rate
    /\ pc = "query_request"

\* the query is empty or made of whitespace only
IsBlankQuery(q) == \A i \in 1..Len(q) : q[i] \in WHITESPACE

\* C11: a query command whose query is empty or whitespace-only ends its
\* execute with the empty-query error of the validator, whatever else the
\* query would satisfy (a query of spaces consists of simple characters).
C11_BlankQueryIsEmptyQuery ==
    (QueryValidated /\ IsBlankQuery(cli.query)) =>
        /\ pc \in {"returned", "exited"}
        /\ ret = Err("InvalidQuery", "empty")

\* C11: a query of two spaces was rejected as empty.
C11_Witness ==
    /\ cli.cmd = "query"
    /\ cli.query = <<" ", " ">>
    /\ pc = "returned"
    /\ ret = Err("InvalidQuery", "empty")

\* no request is sent before the validator returned verdict, none after it
\* returned an error, and that error ends the command
ValidatedFirst(verdict) ==
    /\ (pc = "execute" => requests = <<>>)
    /\ (requests # <<>> => IsOk(verdict))
    /\ (pc # "execute" /\ IsErr(verdict))
          => /\ QueryRejected
             /\ pc \in {"returned", "exited"}
             /\ requests = <<>>

\* C12: in the query command no request is sent unless the validator has
\* accepted the query; a query it rejects ends the command with the
\* invalid-query error and without any request.
C12_ValidationBeforeTransport ==
    cli.cmd = "query" => ValidatedFirst(validate_promql_query(cli.query))

\* C12: a query the validator rejects has been reported by main and no
\* request was sent.
C12_Witness ==
    /\ cli.cmd = "query"
    /\ cli.query = <<"m", ":", "m">>
    /\ pc = "exited"
    /\ QueryRejected
    /\ requests = <<>>

\* the supported range tokens with the seconds the specification gives them
DocumentedDurations ==
    { <<T_1h, 3600>>, <<T_1hour, 3600>>, <<T_6h, 21600>>, <<T_6hours, 21600>>,
      <<T_24h, 86400>>, <<T_1d, 86400>>, <<T_1day, 86400>>,
      <<T_7d, 604800>>, <<T_7days, 604800>>,
      <<T_30d, 2592000>>, <<T_30days, 2592000>> }

SupportedTokens == { d[1] : d \in DocumentedDurations }

\* a query or export command past the parse of the text of its --range
\* (the query command parses it once the validator has accepted the query)
RangeParsed ==
    /\ cli.cmd \in {"query", "export"}
    /\ cli.range # None
    /\ pc # "execute"
    /\ ~QueryRejected

\* the text is a timestamp in decimal
IsTimestamp(t) == t # <<>> /\ AllDigits(t)

\* the window <<start, end>> ends at the instant now and spans seconds
Spans(window, now, seconds) ==
    /\ Len(window) = 2
    /\ IsTimestamp(window[1]) /\ IsTimestamp(window[2])
    /\ DigitsToNat(window[2]) = now
    /\ DigitsToNat(window[2]) - DigitsToNat(window[1]) = seconds

\* C13: for every supported range token parse_time_range returns a window
\* that ends at the current time in epoch seconds and spans exactly the
\* documented number of seconds; the command goes on to its request with it.
C13_SupportedTokensResolve ==
    RangeParsed =>
        \A d \in DocumentedDurations :
            cli.range = Some(d[1]) =>
                /\ pc = "query_request" \/ pc = "export_request" \/ requests # <<>>
                /\ Spans(locals, world.now, d[2])

\* C13: a query over the last 7 days waits for its request with a window.
C13_Witness ==
    /\ cli.cmd = "query"
    /\ cli.range = Some(T_7days)
    /\ pc = "query_request"
    /\ locals = <<i64_to_string(world.now - 604800), i64_to_string(world.now)>>

\* C14: for every text outside the supported tokens parse_time_range fails
\* with a message that contains the text verbatim; the query and the
\* export command return it as a time-parse error and send no request.
C14_UnsupportedTokenFails ==
    (RangeParsed /\ cli.range[1] \notin SupportedTokens) =>
        /\ pc \in {"returned", "exited"}
        /\ IsErr(ret)
        /\ ret[2] = "TimeParseError"
        /\ contains(ret[3], cli.range[1])
        /\ requests = <<>>

\* C14: a query with the range 1H ended with the time-parse error.
C14_Witness ==
    /\ cli.cmd = "query"
    /\ cli.range = Some(<<"1", "H">>)
    /\ pc = "returned"
    /\ IsErr(ret)
    /\ ret[2] = "TimeParseError"

\* the window of a request of the export or of the range query API
WindowOf(req) == IF req.api = "export" THEN req.arg ELSE req.arg[2]

\* C15: every window passed to the backend has start < end, whether it
\* comes from parse_time_range or from --start and --end of export.
C15_WindowsAreOrdered ==
    \A i \in 1..Len(requests) :
        requests[i].api \in {"export", "query_range"} =>
            /\ Len(WindowOf(requests[i])) = 2
            /\ DigitsToNat(WindowOf(requests[i])[1])
                 < DigitsToNat(WindowOf(requests[i])[2])

\* a comment line or a line that is empty after trimming
IsSkipLine(raw) == trim(raw) = <<>> \/ starts_with(raw, "#")

\* the lines of the import file
FileLines == lines(world.content)

\* the validation of the import file returned the error of a malformed line
ValidationFailed == PrepareFailed /\ ret[2] = "InvalidQuery"

\* of the lines ls of the file, no comment and no blank line is the line of
\* the error or of one of the warnings, or counted
SkipLinesUncounted(ls, warnings) ==
    /\ ValidationFailed => ~IsSkipLine(ls[ret[3].line_number])
    /\ \A i \in 1..Len(warnings) : ~IsSkipLine(ls[warnings[i][2]])
    /\ error_count <= Len(ls) - CountOf(ls, IsSkipLine)

\* C16: in the validation of a Prometheus-format import, strict or
\* lenient, a comment line or a blank line is never the line of the error,
\* never the line of a warning and never counted as malformed: the count of
\* malformed lines is at most the number of the other lines.
C16_CommentsAndBlanksSkipped ==
    ImportPrepareDone("prometheus") => SkipLinesUncounted(FileLines, Warnings)

\* C16: a strict import of a file of a comment, a blank line and a line
\* of spaces passed the validation with nothing counted.
C16_Witness ==
    /\ ImportPrepareDone("prometheus")
    /\ ~cli.skip_errors
    /\ FileLines = <<L_comment, <<>>, L_blank>>
    /\ ~PrepareFailed
    /\ line_count = 3
    /\ error_count = 0
    /\ Warnings = <<>>

\* a line that is neither comment nor blank and holds a `{` but no `}`
HasUnclosedBrace(raw) ==
    ~IsSkipLine(raw) /\ contains_char(raw, "{") /\ ~contains_char(raw, "}")

\* the indexes of the lines with an unclosed brace
UnclosedIn(ls) == { i \in 1..Len(ls) : HasUnclosedBrace(ls[i]) }

UnclosedLines == UnclosedIn(FileLines)

\* the validation treated the lines unclosed of the file's lines ls as
\* invalid: strict, it failed at one of them or before; lenient, it warned
\* about each, counted it and read all the lines
UnclosedInvalid(ls, unclosed, warnings) ==
    unclosed # {} =>
        IF ~cli.skip_errors
        THEN /\ ValidationFailed
             /\ \A i \in unclosed : ret[3].line_number <= i
        ELSE /\ ~PrepareFailed
             /\ line_count = Len(ls)
             /\ error_count >= Cardinality(unclosed)
             /\ \A i \in unclosed :
                  \E w \in 1..Len(warnings) :
                      warnings[w] = <<"warning", i, trim(ls[i])>>

\* C17: a line with a `{` and no closing `}` is invalid: strict validation
\* fails no later than at the first such line; lenient validation warns
\* about every such line, counts it and runs to the end of the file.
C17_UnclosedBraceIsInvalid ==
    ImportPrepareDone("prometheus") =>
        UnclosedInvalid(FileLines, UnclosedLines, Warnings)

\* C17: a lenient import whose second line has an unclosed brace counted
\* it and went on to the third line.
C17_Witness ==
    /\ ImportPrepareDone("prometheus")
    /\ cli.skip_errors
    /\ FileLines = <<L_plain, L_open_brace, L_labels>>
    /\ ~PrepareFailed
    /\ line_count = 3
    /\ error_count = 1

\* a query command that printed its response in the given format
QueryRendered(format) ==
    /\ cli.cmd = "query"
    /\ cli.format = format
    /\ ~cli.count
    /\ ~cli.metrics_only
    /\ pc \in {"returned", "exited"}
    /\ IsOk(ret)

\* the result array of the response, and what format_output made of it
Response == requests[1].response

Rendered == stdout[1][2]

HasSingleSample(r) == r.value # None

\* the results that carry a single sample, in the order of the response
SingleSampleResults == SelectSeq(Response, HasSingleSample)

\* the key=value pairs of the metric in the order o
LabelPairs(metric, o) == [i \in 1..Len(o) |-> o[i] \o <<"=">> \o metric[o[i]]]

\* text is the key=value pairs of the metric joined by ", " in some order
IsLabelsOf(text, metric) ==
    \E o \in Iterations(metric) : text = Join(LabelPairs(metric, o), <<",", " ">>)

\* row is the table row of the result r
IsRowOf(row, r) ==
    /\ row.timestamp = display_f64(r.value[1][1])
    /\ row.value = r.value[1][2]
    /\ IsLabelsOf(row.labels, r.metric)

\* C18: the table of a query response has exactly one row per result that
\* carries a single sample, in the order of the response, and none for a
\* result that carries a range of samples only; the placeholder is printed
\* exactly when there is no row.
C18_TableRowsAreSingleSamples ==
    QueryRendered("table") =>
        IF SingleSampleResults = <<>>
        THEN Rendered = <<"placeholder">>
        ELSE /\ Rendered[1] = "table"
             /\ Len(Rendered[2]) = Len(SingleSampleResults)
             /\ \A i \in 1..Len(SingleSampleResults) :
                    IsRowOf(Rendered[2][i], SingleSampleResults[i])

\* C18: a response of a range result followed by an instant result was
\* printed as a table of one row.
C18_Witness ==
    /\ QueryRendered("table")
    /\ Len(Response) = 2
    /\ Response[1].value = None /\ Response[1].values # None
    /\ Response[2].value # None
    /\ Rendered[1] = "table"
    /\ Len(Rendered[2]) = 1

\* the lines of the CSV text, each split at its commas
CsvFields == MapSeq(lines(Rendered[2]), LAMBDA l : split(l, ","))

\* the label keys of the header
HeaderKeys == SubSeq(CsvFields[1], 3, Len(CsvFields[1]))

\* fields is the data row of the result r under the header keys
IsCsvRowOf(fields, r, keys) ==
    /\ Len(fields) = 2 + Len(keys)
    /\ fields[1] = display_f64(r.value[1][1])
    /\ fields[2] = r.value[1][2]
    /\ \A j \in 1..Len(keys) :
          fields[2 + j] = IF keys[j] \in DOMAIN r.metric THEN r.metric[keys[j]]
                          ELSE <<>>

\* C19: the CSV of a non-empty query response has the header
\* timestamp,value and the label keys of the first result, then one row
\* per single-sample result in the order of the response; every row has
\* as many fields as the header, its label fields being the values of the
\* header keys, empty where the result lacks the key.
C19_CsvRowsFollowFirstHeader ==
    (QueryRendered("csv") /\ Response # <<>>) =>
        /\ Rendered[1] = "text"
        /\ Len(CsvFields) = 1 + Len(SingleSampleResults)
        /\ SubSeq(CsvFields[1], 1, 2) = <<T_timestamp, T_value>>
        /\ HeaderKeys \in Iterations(Response[1].metric)
        /\ \A i \in 1..Len(SingleSampleResults) :
              IsCsvRowOf(CsvFields[1 + i], SingleSampleResults[i], HeaderKeys)

\* C20: the CSV of an empty result array is the header row alone or the
\* no-data placeholder alone, and never the empty text.
C20_EmptyCsvIsHeaderOrMarker ==
    (QueryRendered("csv") /\ Response = <<>>) =>
        \/ Rendered = <<"text", T_timestamp \o <<",">> \o T_value \o NL>>
        \/ Rendered = <<"text", T_timestamp \o <<",">> \o T_value>>
        \/ Rendered = <<"placeholder">>

\* the order the keys of the metric objects stand in on the wire: every
\* response lists __name__ first, then a, then b
WireKeys == <<NAME_KEY, <<"a">>, <<"b">>>>

\* the keys of one metric in the order they arrived in
WireOrder(metric) == SelectSeq(WireKeys, LAMBDA k : k \in DOMAIN metric)

\* the keys of every result of the response in the order they arrived in
WireOrders == [i \in 1..Len(Response) |-> WireOrder(Response[i].metric)]

\* C21: the rendering is a function of the result set alone, with the
\* labels in the order they arrived in: the table has the labels column
\* and the CSV the header columns in the order of the wire response.
C21_LabelsInWireOrder ==
    /\ QueryRendered("table") => Rendered = format_table(Response, WireOrders)
    /\ (QueryRendered("csv") /\ Response # <<>>)
          => Rendered = <<"text", format_csv(Response, WireOrders)>>

\* C22: every result the formatter receives carries exactly one of the
\* two sample forms: the single sample or the sequence of samples.
C22_ExactlyOneSampleForm ==
    \A format \in OutputFormats :
        QueryRendered(format) =>
            \A i \in 1..Len(Response) :
                (Response[i].value # None) # (Response[i].values # None)

\* C23: an invocation sends at most one request, and no request follows
\* a request that failed.
C23_AtMostOneRequest ==
    /\ Len(requests) <= 1
    /\ \A i \in 1..Len(requests) :
          requests[i].outcome # "ok" => i = Len(requests)

\* the array of the JSON document of the import
JsonArray == world.content[1][2]

\* a JSON import of an array that went on to the import request
JsonConverted ==
    /\ ImportPrepareDone("json")
    /\ ~cli.dry_run
    /\ IsSome(world.content)
    /\ world.content[1][1] = "arr"

\* the items of the array the converter has a line for, in array order
GoodJsonItems == SelectSeq(JsonArray, IsGoodJsonItem)

\* the members of the metric object of an item, and those that are labels
MetricMembers(item) == json_get(item, T_metric)[1][2]

IsLabelMember(member) == member[1] # NAME_KEY

LabelMembers(item) == SelectSeq(MetricMembers(item), IsLabelMember)

\* key="value" of a label member whose value is a string
LabelText(member) == member[1] \o <<"=", "\"">> \o member[2][2] \o <<"\"">>

\* the label block of an item: {k="v",..} exactly when the metric object
\* has a key other than __name__
ExpectedBlock(item) ==
    IF LabelMembers(item) = <<>> THEN <<>>
    ELSE <<"{">> \o Join(MapSeq(LabelMembers(item), LabelText), <<",">>) \o <<"}">>

\* the number n truncated to an integer, in decimal (n is not negative)
Truncated(n) == NatToDigits(n.m \div Pow10(n.e))

\* the line of an item from its label block on: the block, the value as
\* it is and the timestamp truncated
ExpectedRest(item) ==
    ExpectedBlock(item)
    \o <<" ">> \o display_f64(json_get(item, T_value)[1][2][2][2])
    \o <<" ">> \o Truncated(json_get(item, T_value)[1][2][1][2])

\* the item names its metric with a string
HasStringName(item) ==
    /\ IsSome(json_get(json_get(item, T_metric)[1], NAME_KEY))
    /\ json_get(json_get(item, T_metric)[1], NAME_KEY)[1][1] = "str"

\* line ends with the text rest
EndsWith(line, rest) ==
    /\ Len(line) >= Len(rest)
    /\ SubSeq(line, Len(line) - Len(rest) + 1, Len(line)) = rest

\* line is the line of the item: the name, when the item gives one as a
\* string, then the label block, the value and the truncated timestamp
IsLineOf(line, item) ==
    /\ EndsWith(line, ExpectedRest(item))
    /\ HasStringName(item) =>
          line = json_get(json_get(item, T_metric)[1], NAME_KEY)[1][2]
                  \o ExpectedRest(item)

\* C24: the text converted from a JSON array has one line per item with a
\* metric object and a value array of two numbers, in array order: the
\* name, a label block exactly when the metric object has a key other
\* than __name__, the value unchanged and the timestamp truncated.
C24_JsonItemsBecomeLines ==
    JsonConverted =>
        /\ Len(lines(locals)) = Len(GoodJsonItems)
        /\ \A i \in 1..Len(GoodJsonItems) :
              IsLineOf(lines(locals)[i], GoodJsonItems[i])

\* C24: an array of a sample with a label and a fractional timestamp
\* and a sample without labels was converted to two lines.
C24_Witness ==
    /\ JsonConverted
    /\ Len(GoodJsonItems) = 2
    /\ LabelMembers(GoodJsonItems[1]) # <<>>
    /\ LabelMembers(GoodJsonItems[2]) = <<>>
    /\ locals = <<"m", "{", "a", "=", "\"", "1", "\"", "}", " ", "3", ".", "5",
                   " ", "1", "7", "\n", "m", " ", "3", ".", "5", " ", "1", "7",
                   "\n">>

\* C25: admin delete sends its request only with --confirm: without it,
\* whatever --start and --end are, no request is sent and the command
\* returns success after the warning.
C25_DeleteNeedsConfirm ==
    (cli.cmd = "admin" /\ cli.sub = "delete") =>
        /\ requests # <<>> => cli.confirm
        /\ (~cli.confirm /\ pc # "execute") =>
              /\ requests = <<>>
              /\ ret = Ok(<<>>)
              /\ stdout[1] = <<"irreversible">>
              /\ stdout[Len(stdout)] = <<"use_confirm">>

\* C25: a delete with a window and without --confirm has exited with
\* code 0 and no request.
C25_Witness ==
    /\ cli.cmd = "admin" /\ cli.sub = "delete"
    /\ ~cli.confirm
    /\ cli.start # None /\ cli.end # None
    /\ pc = "exited"
    /\ exit_code = 0
    /\ requests = <<>>

\* a lenient import in Prometheus format that sent its request
LenientImportSent ==
    /\ ImportPrepareDone("prometheus")
    /\ cli.skip_errors
    /\ requests # <<>>

\* C26: the body of the import request of a lenient Prometheus-format
\* import is the content of the file unchanged: every line a warning was
\* written for is still in it, at its place.
C26_LenientSendsContentUnchanged ==
    LenientImportSent =>
        /\ requests[1].api = "import"
        /\ requests[1].arg = world.content
        /\ \A w \in 1..Len(Warnings) :
              trim(lines(requests[1].arg)[Warnings[w][2]]) = Warnings[w][3]

\* C26: a lenient import of a file whose second line has an unclosed
\* brace warned about that line and sent all three lines.
C26_Witness ==
    /\ LenientImportSent
    /\ Warnings = << <<"warning", 2, L_open_brace>> >>
    /\ requests[1].arg = TextOfLines(<<L_plain, L_open_brace, L_labels>>)

\* the import file holds a line that is malformed
HasMalformedLine == \E i \in 1..Len(FileLines) : IsMalformedLine(FileLines[i])

\* the CSV document holds a record the reader fails on: one whose number
\* of fields is not the header's
HasCsvParseError ==
    /\ world.content # <<>>
    /\ \E i \in 2..Len(world.content) : Len(world.content[i]) # Len(world.content[1])

\* C27: with --dry-run no import request is ever sent, and the file is
\* still checked first: a missing file fails with file-not-found, and a
\* malformed line in strict mode, a JSON text that does not parse and a
\* CSV parse error make the dry run fail with an error.
C27_DryRunChecksButNeverSends ==
    (cli.cmd = "import" /\ cli.dry_run) =>
        /\ requests = <<>>
        /\ pc # "import_request"
        /\ (pc # "execute" /\ world.file = "missing")
              => IsErr(ret) /\ ret[2] = "FileNotFound"
        /\ (ImportPrepareDone("prometheus") /\ ~cli.skip_errors /\ HasMalformedLine)
              => IsErr(ret) /\ ret[2] = "InvalidQuery"
        /\ (ImportPrepareDone("json") /\ world.content = None)
              => IsErr(ret) /\ ret[2] = "JsonError"
        /\ (ImportPrepareDone("csv") /\ HasCsvParseError)
              => IsErr(ret) /\ ret[2] = "CsvError"

\* the window that ends at the invocation's clock and spans secs seconds
LastSeconds(secs) == <<i64_to_string(world.now - secs), i64_to_string(world.now)>>

\* the documented span of a supported token, in seconds
DocumentedSeconds(tok) ==
    (CHOOSE d \in DocumentedDurations : d[1] = tok)[2]

\* the export command goes on with window w: it is what the request is
\* about to be sent with, and what every request was sent with
ExportsWindow(w) ==
    /\ pc = "export_request" \/ requests # <<>>
    /\ pc = "export_request" => locals = w
    /\ \A i \in 1..Len(requests) :
          requests[i].api = "export" /\ requests[i].arg = w

\* C30: export chooses its window by precedence: the --range token when
\* given, whatever --start and --end are; otherwise --start and --end
\* unchanged when both are given; otherwise, one of them alone included,
\* the last hour.
C30_ExportWindowPrecedence ==
    (cli.cmd = "export" /\ pc # "execute") =>
        IF cli.range # None
        THEN IF cli.range[1] \in SupportedTokens
             THEN ExportsWindow(LastSeconds(DocumentedSeconds(cli.range[1])))
             ELSE requests = <<>> /\ IsErr(ret) /\ ret[2] = "TimeParseError"
        ELSE IF cli.start # None /\ cli.end # None
             THEN ExportsWindow(<<cli.start[1], cli.end[1]>>)
             ELSE ExportsWindow(LastSeconds(3600))

\* C30: an export with --start alone sent its request with the last hour.
C30_Witness ==
    /\ cli.cmd = "export"
    /\ cli.range = None /\ cli.start = Some(<<"5">>) /\ cli.end = None
    /\ Len(requests) = 1
    /\ requests[1].arg = <<i64_to_string(world.now - 3600), i64_to_string(world.now)>>
    /\ requests[1].outcome = "ok"

\* the value the loaded configuration holds for a key: the variable of the
\* environment when set, else the key of the config file when present,
\* else the built-in default
Loaded(default, key) ==
    IF world.setup.env[key] # None THEN world.setup.env[key][1]
    ELSE IF world.setup.file[key] # None THEN world.setup.file[key][1]
    ELSE default

\* the addresses the loaded configuration names: its host and, in a
\* cluster section, the host of vmstorage
ConfiguredAddresses ==
    {Loaded("http://localhost:8428", "host")}
    \cup (IF world.cluster # None /\ world.cluster[1].vmstorage_host # None
          THEN {world.cluster[1].vmstorage_host[1]} ELSE {})

\* C28: every request is sent to an address of the loaded configuration
\* and under its timeout, whatever --host and --timeout are.
C28_ClientFromLoadedConfig ==
    \A i \in 1..Len(requests) :
        /\ requests[i].url[1] \in ConfiguredAddresses
        /\ requests[i].timeout = Loaded(30, "timeout")

\* C28: an invocation with --host and --timeout given and a host in the
\* config file sent its request to the host of the file under the default
\* timeout.
C28_Witness ==
    /\ world.setup.args = [host |-> "http://flag:1", timeout |-> 5]
    /\ world.setup.file = [host |-> Some("http://file:2"), timeout |-> None]
    /\ world.setup.env = [host |-> None, timeout |-> None]
    /\ requests # <<>>
    /\ requests[1].url[1] = "http://file:2"
    /\ requests[1].timeout = 30

\* the requests whose path is resolved against the cluster section
ResolvedApis == {"query", "query_range", "health", "metrics"}

\* the default path of such a request
DefaultPath(api) ==
    CASE api = "query" -> <<"api", "v1", "query">>
      [] api = "query_range" -> <<"api", "v1", "query_range">>
      [] api = "health" -> <<"health">>
      [] api = "metrics" -> <<"api", "v1", "label", "__name__", "values">>

\* the path the claim gives a request of default path p
ResolvedPath(p) ==
    IF world.cluster = None THEN p
    ELSE IF ~world.cluster[1].use_select_endpoint
    THEN world.cluster[1].query_endpoint
    ELSE IF Len(p) >= 2 /\ p[1] = "api"
    THEN <<"select", world.cluster[1].select_account_id, "prometheus">> \o p
    ELSE p

\* C29: with a cluster section and use_select_endpoint false, instant
\* query, range query, health and metric-list requests all go to the
\* configured query_endpoint; with use_select_endpoint true the paths
\* under /api/ go to /select/<account_id>/prometheus<path> and the others
\* are unchanged; without a cluster section every path is the default.
C29_EndpointResolution ==
    \A i \in 1..Len(requests) :
        requests[i].api \in ResolvedApis =>
            requests[i].url[2] = ResolvedPath(DefaultPath(requests[i].api))

\* C29: a range query under a cluster section without select endpoints was
\* sent to the instant-query path.
C29_Witness ==
    /\ world.cluster # None
    /\ ~world.cluster[1].use_select_endpoint
    /\ \E i \in 1..Len(requests) :
          /\ requests[i].api = "query_range"
          /\ requests[i].url[2] = <<"api", "v1", "query">>

====
